---- MODULE Spec2Model ----
(***************************************************************************)
(* A model of the haya-data storage server: the distribute and restore     *)
(* tasks (server/distribute.py, server/restore.py), the crypto helpers     *)
(* (server/encrypt.py), the coordinator event loop (server/logic.py), the  *)
(* network sender and receiver threads (server/network.py) and the storage *)
(* peers (client/logic.py).                                                *)
(*                                                                         *)
(* Bytes are modelled one bit wide: XOR, zero padding and the CTR key      *)
(* stream act on every bit lane of a byte independently.  SHA-256 is       *)
(* modelled as an injective function.  A serialized object (msgpack +      *)
(* zlib) is a record with a flag telling whether it still decompresses.    *)
(* Every queue is a log plus a read cursor: queue[head+1] is the next      *)
(* message Queue.get() returns.                                            *)
(***************************************************************************)
EXTENDS Integers, Sequences, FiniteSets, TLC

\* ------------------------------------------------------------------ bounds
MaxFileSize == 3
MaxBlockSize == 2
MaxDup == 2
MaxVal == 2
MaxPeers == 2
MaxFaults == 3
NumKeys == 1
MaxRequests == 2
MaxKills == 1

\* --------------------------------------------------------------- constants
DATA_BLOCK == "data"
METADATA_BLOCK == "metadata"

Byte == {0, 1}
Peers == 1..MaxPeers
Keys == 1..NumKeys
ThreadIds == 1..(MaxRequests + 1)
None == <<-1>>

VARIABLES
    fs,             \* server file system: path -> bytes (paths are <<dir, base name>>)
    dest,           \* files written by restore tasks: path -> bytes
    temp,           \* the server temp directory: <<client dir, name, number, type>> -> content
    logic_queue,    \* every message put on the coordinator inbox, in order
    logic_head,     \* how many of them the consumer has taken
    dist,           \* distribute threads: ident -> locals
    rest,           \* restore threads: ident -> locals
    recon,          \* LogicThread.reconstruct_queue and reconstruct_thread_id
    store,          \* peer data directories: peer -> (<<name, number, type>> -> content)
    peer_up,        \* peers whose daemon is connected
    pending,        \* ask_block requests a peer has not answered yet: peer -> set of names
    faults,         \* number of storage faults injected so far
    clients,        \* LogicThread.clients
    running_threads,\* LogicThread.running_threads
    db,             \* rows of the files table, in insertion order
    gui_queue,      \* messages put on the gui queue
    network_queue,  \* messages put on the network sender queue
    next_ident,     \* the next thread ident the runtime hands out
    sockets,        \* NetworkSenderThread.sockets: the peers it has a socket of
    network_head,   \* how many messages the sender has taken off network_queue
    sender_running, \* the sender thread is in its loop
    wire_out,       \* what was wire_out to the socket of a peer: peer -> messages
    recv_sockets,   \* NetworkReceiverThread.sockets
    messages,       \* NetworkReceiverThread.messages: peer -> <<content, missing bytes>>
    inbound,        \* bytes a peer has sent that no recv has returned yet: peer -> bytes
    frames,         \* payloads of the frames a peer has sent, in order
    receiver_running, \* the receiver thread is in its loop
    peer_head,      \* peer daemon: how many messages of its socket its logic thread has taken
    peer_out,       \* peer daemon: the messages put on its network queue, in order
    unreadable,     \* peer daemon: the block files that cannot be opened for reading
    peer_running    \* peer daemon: its logic thread is in its loop

engineVars == <<fs, dest, temp, dist, rest, recon, store, peer_up, pending, faults>>
coordVars == <<clients, running_threads, db, gui_queue, network_queue, next_ident>>
netVars == <<sockets, network_head, sender_running, wire_out, recv_sockets,
             messages, inbound, frames, receiver_running>>
peerVars == <<peer_head, peer_out, unreadable, peer_running>>
vars == <<fs, dest, temp, logic_queue, logic_head, dist, rest, recon, store,
          peer_up, pending, faults, clients, running_threads, db, gui_queue,
          network_queue, next_ident, sockets, network_head, sender_running,
          wire_out, recv_sockets, messages, inbound, frames, receiver_running,
          peer_head, peer_out, unreadable, peer_running>>

\* ----------------------------------------------------------------- helpers
Max(a, b) == IF a >= b THEN a ELSE b
Min(a, b) == IF a <= b THEN a ELSE b
Range(f) == {f[x] : x \in DOMAIN f}
EmptyMap == [x \in {} |-> 0]
Basename(path) == path[2]
\* the functions f without the keys in S
Without(f, S) == [x \in (DOMAIN f) \ S |-> f[x]]
\* integer division rounding up, as the code computes it: a / b, plus one
\* when a % b != 0
CeilDiv(a, b) == (a \div b) + (IF a % b # 0 THEN 1 ELSE 0)

\* ------------------------------------------------------- server/encrypt.py
XorByte(a, b) == (a + b) % 2
PadAt(s, i) == IF i <= Len(s) THEN s[i] ELSE 0
\* izip_longest(fillvalue='\x00'): shorter operands are zero padded on the
\* right, the result is as long as the longest operand
xor_strings(a, b) ==
    [i \in 1..Max(Len(a), Len(b)) |-> XorByte(PadAt(a, i), PadAt(b, i))]
\* sha256(...).hexdigest(): injective
hash_string(string) == [sha256 |-> string]
\* AES-CTR with a zero nonce: the key fixes a key stream, which is XORed in
KeyStream(key, i) == (key + i) % 2
encrypt(key, value) == [i \in 1..Len(value) |-> XorByte(value[i], KeyStream(key, i))]
\* a decryption that leaves the cipher text as it is
decryptNothing(key, value) == value
decrypt(key, value) == [i \in 1..Len(value) |-> XorByte(value[i], KeyStream(key, i))]
\* the same functions applied to a serialized object
encrypt_packed(key, packed) == [key |-> key, ok |-> packed.ok, obj |-> packed.obj]
decrypt_packed(key, cipher) == [ok |-> cipher.ok /\ cipher.key = key, obj |-> cipher.obj]

\* ------------------------------------------ protocol/__init__.py (build/parse)
build(message) == [ok |-> TRUE, obj |-> message]
\* parse raises when the bytes do not decompress
ParseFails(packed) == ~packed.ok
parse(packed) == packed.obj

\* ------------------------------------------------- protocol/thread.py
send(message, client) == [type |-> "send", client |-> client, message |-> message]
thread_exit(thread_id, success) ==
    [type |-> "thread_exit", thread_id |-> thread_id, success |-> success]
error(thread_id, message) ==
    [type |-> "error", thread_id |-> thread_id, message |-> message]
exit == [type |-> "exit"]

\* ------------------------------------------------- protocol/server.py
send_block(block_type, name, number, content) ==
    build([type |-> "send_block", block_type |-> block_type, name |-> name,
           number |-> number, content |-> content])

\* ------------------------------------------------- distribute.py: Validator
ValidatorInit == [data |-> None, blocks |-> EmptyMap]
ValidatorUpdate(v, block_data, number) ==
    [data |-> IF v.data = None THEN block_data ELSE xor_strings(v.data, block_data),
     blocks |-> (number :> hash_string(block_data)) @@ v.blocks]
ValidatorGetData(v) == build([hashes |-> v.blocks, xor |-> v.data])

\* ------------------------------------------- distribute.py: DistributeThread
NewDistributeThread(file_path, block_size, duplication_level, validation_level, clientList, key) ==
    [pc |-> "start", file_path |-> file_path, block_size |-> block_size,
     duplication_level |-> duplication_level,
     validation_level |-> validation_level, clients |-> clientList, key |-> key,
     queue |-> <<>>, pos |-> 0, count |-> 1, validation_count |-> 1,
     data_client_pointer |-> 0, metadata_client_pointer |-> 0,
     validator |-> ValidatorInit]

\* DistributeThread.send_block: the message the thread puts on the logic queue
DistSendBlock(t, client, block_type, number, content) ==
    send(send_block(block_type, Basename(t.file_path), number,
                    IF block_type = METADATA_BLOCK
                    THEN encrypt_packed(t.key, content)
                    ELSE encrypt(t.key, content)),
         client)

\* a pointer that is set back to the first client after every send
NextPointerReset(pointer, n) == 0
\* pointer += 1; if pointer >= len(self.clients): pointer = 0
NextPointer(pointer, n) == IF pointer + 1 >= n THEN 0 ELSE pointer + 1

\* the duplication loop: for i in xrange(duplication_level)
RECURSIVE DupLoop(_, _, _, _)
DupLoop(t, data, i, pointer) ==
    IF i = 0 THEN [msgs |-> <<>>, pointer |-> pointer]
    ELSE LET restLoop == DupLoop(t, data, i - 1,
                                 NextPointer(pointer, Len(t.clients)))
         IN [msgs |-> <<DistSendBlock(t, t.clients[pointer + 1], DATA_BLOCK,
                                      t.count, data)>> \o restLoop.msgs,
             pointer |-> restLoop.pointer]

\* the client the in-loop validation block is sent to
LoopMetadataClient(t) == t.clients[t.data_client_pointer + 1]

\* run(): the file does not exist, or the locals are initialised
DistStart(id) ==
    /\ id \in DOMAIN dist
    /\ dist[id].pc = "start"
    /\ IF dist[id].file_path \notin DOMAIN fs
       THEN /\ logic_queue' = logic_queue \o
                   <<error(id, "file doesn't exist, distribution failed"),
                     thread_exit(id, TRUE)>>
            /\ dist' = [dist EXCEPT ![id].pc = "exited"]
       ELSE /\ dist' = [dist EXCEPT ![id].pc = "poll"]
            /\ UNCHANGED logic_queue
    /\ UNCHANGED <<fs, dest, temp, logic_head, rest, recon, store, peer_up,
                   pending, faults>>
    /\ UNCHANGED coordVars
    /\ UNCHANGED netVars
    /\ UNCHANGED peerVars

\* the head of the loop: distribute_queue.get(timeout=0.1)
DistPoll(id) ==
    /\ id \in DOMAIN dist
    /\ dist[id].pc = "poll"
    /\ IF dist[id].queue # <<>>
       THEN IF Head(dist[id].queue).type = "exit"
            THEN /\ logic_queue' = Append(logic_queue, thread_exit(id, FALSE))
                 /\ dist' = [dist EXCEPT ![id].pc = "exited",
                                         ![id].queue = Tail(@)]
            ELSE /\ dist' = [dist EXCEPT ![id].pc = "block",
                                         ![id].queue = Tail(@)]
                 /\ UNCHANGED logic_queue
       ELSE /\ dist' = [dist EXCEPT ![id].pc = "block"]
            /\ UNCHANGED logic_queue
    /\ UNCHANGED <<fs, dest, temp, logic_head, rest, recon, store, peer_up,
                   pending, faults>>
    /\ UNCHANGED coordVars
    /\ UNCHANGED netVars
    /\ UNCHANGED peerVars

\* the body of the loop: read one block, update the validator, send the
\* validation block when count % validation_level == 0, send the duplicates
DistBlock(id) ==
    /\ id \in DOMAIN dist
    /\ dist[id].pc = "block"
    /\ LET t == dist[id]
           content == fs[t.file_path]
           data == SubSeq(content, t.pos + 1, Min(t.pos + t.block_size, Len(content)))
           validated == ValidatorUpdate(t.validator, data, t.count)
           sendMeta == t.count % t.validation_level = 0
           metaMsgs == IF sendMeta
                       THEN <<DistSendBlock(t, LoopMetadataClient(t), METADATA_BLOCK,
                                            t.validation_count,
                                            ValidatorGetData(validated))>>
                       ELSE <<>>
           mcp1 == IF sendMeta THEN t.metadata_client_pointer + 1
                   ELSE t.metadata_client_pointer
           mcp2 == IF mcp1 >= Len(t.clients) THEN 0 ELSE mcp1
           dup == DupLoop(t, data, t.duplication_level, t.data_client_pointer)
       IN IF data = <<>>
          THEN /\ dist' = [dist EXCEPT ![id].pc = "finish"]
               /\ UNCHANGED logic_queue
          ELSE IF Len(t.clients) = 0
          THEN \* self.clients[...] raises IndexError: the thread dies
               /\ dist' = [dist EXCEPT ![id].pc = "crashed",
                                       ![id].validator = validated]
               /\ UNCHANGED logic_queue
          ELSE /\ logic_queue' = logic_queue \o metaMsgs \o dup.msgs
               /\ dist' = [dist EXCEPT
                    ![id].pc = "poll",
                    ![id].pos = t.pos + Len(data),
                    ![id].validator = IF sendMeta THEN ValidatorInit ELSE validated,
                    ![id].validation_count = IF sendMeta THEN @ + 1 ELSE @,
                    ![id].metadata_client_pointer = mcp2,
                    ![id].data_client_pointer = dup.pointer,
                    ![id].count = @ + 1]
    /\ UNCHANGED <<fs, dest, temp, logic_head, rest, recon, store, peer_up,
                   pending, faults>>
    /\ UNCHANGED coordVars
    /\ UNCHANGED netVars
    /\ UNCHANGED peerVars

\* a trailing validation block that is sent after every file
TrailingMetadataAlways(file_size, block_size) == TRUE
\* the condition under which the trailing validation block is sent
TrailingMetadata(file_size, block_size) == file_size % block_size # 0

\* after the loop: the trailing validation block, then exit_thread()
DistFinish(id) ==
    /\ id \in DOMAIN dist
    /\ dist[id].pc = "finish"
    /\ LET t == dist[id]
           file_size == Len(fs[t.file_path])
       IN IF TrailingMetadata(file_size, t.block_size)
          THEN IF Len(t.clients) = 0
               THEN /\ dist' = [dist EXCEPT ![id].pc = "crashed"]
                    /\ UNCHANGED logic_queue
               ELSE /\ logic_queue' = logic_queue \o
                          <<DistSendBlock(t, t.clients[t.metadata_client_pointer + 1],
                                          METADATA_BLOCK, t.validation_count,
                                          ValidatorGetData(t.validator)),
                            thread_exit(id, TRUE)>>
                    /\ dist' = [dist EXCEPT ![id].pc = "exited"]
          ELSE /\ logic_queue' = Append(logic_queue, thread_exit(id, TRUE))
               /\ dist' = [dist EXCEPT ![id].pc = "exited"]
    /\ UNCHANGED <<fs, dest, temp, logic_head, rest, recon, store, peer_up,
                   pending, faults>>
    /\ UNCHANGED coordVars
    /\ UNCHANGED netVars
    /\ UNCHANGED peerVars

\* ------------------------------------------------------ client/utils.py
\* File names are sequences of the tokens that underscores separate:
\* <<"a", "b">> is the name a_b.  glob(build_file_name(name, '*', '*'))
\* matches name_*.*: every file whose name starts with name and an
\* underscore, which includes the blocks of the file itself.
IsPrefix(p, n) == Len(p) <= Len(n) /\ SubSeq(n, 1, Len(p)) = p
GlobName(pattern, name) == IsPrefix(pattern, name)

\* ------------------------------------------------------ client/logic.py
\* send_block: the content is written to name_number.block_type, overwriting
ClientSendBlock(dir, m) == (<<m.name, m.number, m.block_type>> :> m.content) @@ dir

\* the elements of a finite set, in some fixed order
RECURSIVE SetToSeq(_)
SetToSeq(S) ==
    IF S = {} THEN <<>>
    ELSE LET x == CHOOSE x \in S : TRUE
         IN <<x>> \o SetToSeq(S \ {x})

\* ask_block: one block message per matching file (the name, number and
\* type are parsed from the file name), then file_sent
ClientAskBlock(dir, name, p) ==
    LET files == SetToSeq({k \in DOMAIN dir : GlobName(name, k[1])})
    IN [i \in 1..Len(files) |->
           [type |-> "block", block_type |-> files[i][3], name |-> files[i][1],
            number |-> files[i][2], content |-> dir[files[i]], client |-> p]]
       \o <<[type |-> "file_sent", name |-> name, client |-> p]>>

\* ------------------------------------------------ restore.py: RestoreThread
NewRestoreThread(real_file, virtual_file, block_number, validation_level, clientList, key) ==
    [pc |-> "collect", real_file |-> real_file, virtual_file |-> virtual_file,
     block_number |-> block_number, validation_level |-> validation_level,
     validation_number |-> CeilDiv(block_number, validation_level),
     clients |-> [c \in Range(clientList) |-> FALSE], key |-> key,
     queue |-> <<>>, mapping |-> EmptyMap, valid_blocks |-> EmptyMap]

\* get_blocks_names(): the staged files temp/<client>/<name>_<number>.<type>
GetBlocksNames(tmp, name) ==
    {k \in DOMAIN tmp : k[1] # 0 /\ GlobName(name, k[2])}

\* exit_thread(): the staged blocks are removed, thread_exit is put
RestoreExitTemp(tmp, name) == Without(tmp, GetBlocksNames(tmp, name))

\* received_block(): the block is decrypted and staged
ReceivedBlock(t, tmp, m) ==
    (<<m.client, m.name, m.number, m.block_type>> :>
        IF m.block_type = METADATA_BLOCK
        THEN decrypt_packed(t.key, m.content)
        ELSE decrypt(t.key, m.content)) @@ tmp

AllDone(t) == \A c \in DOMAIN t.clients : t.clients[c]

\* the collection loop takes one message off the queue
RestoreReceive(id) ==
    /\ id \in DOMAIN rest
    /\ rest[id].pc = "collect"
    /\ ~AllDone(rest[id])
    /\ rest[id].queue # <<>>
    /\ LET t == rest[id]
           message == Head(t.queue)
       IN IF message.type = "block"
          THEN /\ temp' = ReceivedBlock(t, temp, message)
               /\ rest' = [rest EXCEPT ![id].queue = Tail(@)]
               /\ UNCHANGED logic_queue
          ELSE IF message.type = "file_sent"
          THEN /\ rest' = [rest EXCEPT ![id].queue = Tail(@),
                             ![id].clients = (message.client :> TRUE) @@ @]
               /\ UNCHANGED <<temp, logic_queue>>
          ELSE IF message.type = "exit"
          THEN /\ temp' = RestoreExitTemp(temp, t.virtual_file)
               /\ logic_queue' = Append(logic_queue, thread_exit(id, FALSE))
               /\ rest' = [rest EXCEPT ![id].queue = Tail(@), ![id].pc = "exited"]
          ELSE /\ rest' = [rest EXCEPT ![id].queue = Tail(@)]
               /\ UNCHANGED <<temp, logic_queue>>
    /\ UNCHANGED <<fs, dest, logic_head, dist, recon, store, peer_up, pending, faults>>
    /\ UNCHANGED coordVars
    /\ UNCHANGED netVars
    /\ UNCHANGED peerVars

\* the loop condition fails: every client has sent file_sent
RestoreCollected(id) ==
    /\ id \in DOMAIN rest
    /\ rest[id].pc = "collect"
    /\ AllDone(rest[id])
    /\ rest' = [rest EXCEPT ![id].pc = "process"]
    /\ UNCHANGED <<fs, dest, temp, logic_queue, logic_head, dist, recon, store,
                   peer_up, pending, faults>>
    /\ UNCHANGED coordVars
    /\ UNCHANGED netVars
    /\ UNCHANGED peerVars

\* the loop condition fails: 30 seconds without a message.  A connected
\* peer answers an ask_block within that time, so the timer runs out only
\* when no answer is on its way.
RestoreTimeout(id) ==
    /\ id \in DOMAIN rest
    /\ rest[id].pc = "collect"
    /\ ~AllDone(rest[id])
    /\ rest[id].queue = <<>>
    /\ \A p \in peer_up : rest[id].virtual_file \notin pending[p]
    /\ rest' = [rest EXCEPT ![id].pc = "process"]
    /\ UNCHANGED <<fs, dest, temp, logic_queue, logic_head, dist, recon, store,
                   peer_up, pending, faults>>
    /\ UNCHANGED coordVars
    /\ UNCHANGED netVars
    /\ UNCHANGED peerVars

\* ------------------------------------- restore.py: mapping, validation, repair
NoPath == <<0, <<>>, 0, "none">>

\* a set of integers as the ascending sequence (xrange order)
RECURSIVE SortedSeq(_)
SortedSeq(S) ==
    IF S = {} THEN <<>>
    ELSE LET m == CHOOSE x \in S : \A y \in S : x <= y
         IN <<m>> \o SortedSeq(S \ {m})

\* the data blocks of one metadata block: start_number .. end_number, capped
GroupBlocks(t, g) ==
    {n \in (1 + t.validation_level * (g - 1))..(t.validation_level * g) :
        n <= t.block_number}

\* get_blocks_names(block_type=METADATA): temp/*/<name>_*.metadata
StagedMetadata(tmp, name) ==
    {k \in DOMAIN tmp : k[1] # 0 /\ GlobName(name, k[2]) /\ k[4] = METADATA_BLOCK}

\* get_blocks_names(block_type=DATA, number=n): temp/*/<name>_<n>.data
StagedData(tmp, name, n) ==
    {k \in DOMAIN tmp : k[1] # 0 /\ k[2] = name /\ k[3] = n /\ k[4] = DATA_BLOCK}

\* the keys of the mapping: the metadata numbers that were staged and 1..G
MappingKeys(t, tmp) ==
    {k[3] : k \in StagedMetadata(tmp, t.virtual_file)} \cup 1..t.validation_number

\* mapping[number]['path']: the last staged metadata path glob returns for
\* the number, in an order the file system decides, or None
MetadataPicks(t, tmp) ==
    LET staged == StagedMetadata(tmp, t.virtual_file)
        of(g) == {k \in staged : k[3] = g}
    IN {f \in [MappingKeys(t, tmp) -> staged \cup {NoPath}] :
           \A g \in DOMAIN f : IF of(g) = {} THEN f[g] = NoPath ELSE f[g] \in of(g)}

\* max(set(content), key=content.count) over (path, content) pairs: every
\* pair occurs once, so the pair that set iteration yields first is taken
MostCommon(tmp, candidates) == candidates

DataPicks(t, tmp) ==
    LET of(n) == StagedData(tmp, t.virtual_file, n)
    IN {f \in [1..t.block_number -> (UNION {of(n) : n \in 1..t.block_number}) \cup {NoPath}] :
           \A n \in DOMAIN f : IF of(n) = {} THEN f[n] = NoPath
                               ELSE f[n] \in MostCommon(tmp, of(n))}

\* a hash check that accepts every candidate
HashMatchesAlways(content, block_hash) == TRUE
\* the hash check of one candidate against the metadata
HashMatches(content, block_hash) == hash_string(content) = block_hash

\* a check that never finds too many blocks missing
UnrestorableNever(missing_count) == FALSE
\* missing_count > 1: the file cannot be restored
Unrestorable(missing_count) == missing_count > 1

RECURSIVE XorAll(_, _)
XorAll(restored, contents) ==
    IF contents = <<>> THEN restored
    ELSE XorAll(xor_strings(restored, Head(contents)), Tail(contents))

RECURSIVE Concat(_)
Concat(ss) == IF ss = <<>> THEN <<>> ELSE Head(ss) \o Concat(Tail(ss))

\* run() after the collection loop, for one choice of the metadata paths
\* (mp) and of the unvalidated data paths (dp)
RestoreOutcome(t, tmp, mp, dp) ==
    LET name == t.virtual_file
        N == t.block_number
        keys == DOMAIN mp
        groupOf(b) == ((b - 1) \div t.validation_level) + 1
        usable(g) == mp[g] # NoPath /\ ~ParseFails(tmp[mp[g]])
        meta(g) == parse(tmp[mp[g]])
        blocks(g) == IF g \in 1..t.validation_number THEN GroupBlocks(t, g) ELSE {}
        \* block_hash keeps the value of an earlier iteration when the
        \* metadata has no hash for the block
        known(b) == {c \in 1..b : usable(groupOf(c))
                                  /\ c \in DOMAIN meta(groupOf(c)).hashes}
        last(b) == CHOOSE c \in known(b) : \A d \in known(b) : d <= c
        block_hash(b) == meta(groupOf(last(b))).hashes[last(b)]
        unbound == \E b \in 1..N : /\ usable(groupOf(b))
                                   /\ StagedData(tmp, name, b) # {}
                                   /\ known(b) = {}
        matching(b) == {k \in StagedData(tmp, name, b) :
                           HashMatches(tmp[k], block_hash(b))}
        validated == {b \in 1..N : IF usable(groupOf(b)) THEN matching(b) # {}
                                   ELSE StagedData(tmp, name, b) # {}}
        path(b) == IF usable(groupOf(b)) THEN CHOOSE k \in matching(b) : TRUE
                   ELSE dp[b]
        missing_data(g) == blocks(g) \ validated
        lost(g) == CHOOSE m \in missing_data(g) : TRUE
        others(g) == SortedSeq(blocks(g) \ missing_data(g))
        restored(g) == XorAll(meta(g).xor,
                              [i \in 1..Len(others(g)) |-> tmp[path(others(g)[i])]])
        repairable(g) == /\ Cardinality(missing_data(g)) = 1
                         /\ usable(g)
        raises(g) == /\ repairable(g)
                     /\ (meta(g).xor = None \/ lost(g) \notin DOMAIN meta(g).hashes)
        rebuilt(g) == /\ repairable(g)
                      /\ ~raises(g)
                      /\ HashMatches(restored(g), meta(g).hashes[lost(g)])
        bad(g) == \/ Unrestorable(Cardinality(missing_data(g)))
                  \/ Cardinality(missing_data(g)) = 1 /\ ~rebuilt(g)
        reached(g) == \A h \in keys : h < g => ~bad(h)
        corrupted == \E g \in keys : bad(g) /\ ~raises(g)
        written == {g \in keys : rebuilt(g) /\ reached(g)}
        content(b) == IF b \in validated THEN tmp[path(b)] ELSE restored(groupOf(b))
    IN [crashed |-> unbound \/ \E g \in keys : raises(g) /\ reached(g),
        corrupted |-> corrupted,
        valid_blocks |-> validated \cup {lost(g) : g \in written},
        usable |-> {g \in keys : usable(g)},
        hashes |-> [b \in {c \in 1..N : usable(groupOf(c)) /\ known(c) # {}}
                       |-> block_hash(b)],
        chosen |-> [b \in validated \cup {lost(g) : g \in written} |-> content(b)],
        rebuilt |-> [k \in {<<0, name, lost(g), DATA_BLOCK>> : g \in written} |->
                        restored(groupOf(k[3]))],
        output |-> IF corrupted THEN <<>>
                   ELSE Concat([b \in 1..N |-> content(b)])]

\* an exit that reports success whatever was found
SuccessAlways(corrupted) == TRUE
\* exit_thread(success=not corrupted)
Success(corrupted) == ~corrupted

\* open(path, 'wb') raises IOError when the directory of the path is missing
CanOpen(path) == path[1] # "gone"

\* mapping, validation, repair, assembly and exit_thread; an exception that
\* run() raises is logged by handle_except and ends the thread
RestoreProcess(id) ==
    /\ id \in DOMAIN rest
    /\ rest[id].pc = "process"
    /\ \E mp \in MetadataPicks(rest[id], temp), dp \in DataPicks(rest[id], temp) :
         LET t == rest[id]
             o == RestoreOutcome(t, temp, mp, dp)
         IN IF o.crashed \/ (~o.corrupted /\ ~CanOpen(t.real_file))
            THEN /\ rest' = [rest EXCEPT ![id].pc = "crashed"]
                 /\ temp' = o.rebuilt @@ temp
                 /\ UNCHANGED <<dest, logic_queue>>
            ELSE /\ rest' = [rest EXCEPT
                              ![id].pc = "exited",
                              ![id].mapping = [g \in o.usable |-> parse(temp[mp[g]])],
                              ![id].valid_blocks = o.chosen]
                 /\ temp' = RestoreExitTemp(o.rebuilt @@ temp, t.virtual_file)
                 /\ dest' = IF o.corrupted THEN dest
                            ELSE (t.real_file :> o.output) @@ dest
                 /\ logic_queue' = logic_queue \o
                        (IF o.corrupted
                         THEN <<error(id, "is corrupted, could not restore")>>
                         ELSE <<>>) \o
                        <<thread_exit(id, Success(o.corrupted))>>
    /\ UNCHANGED <<fs, logic_head, dist, recon, store, peer_up, pending, faults>>
    /\ UNCHANGED coordVars
    /\ UNCHANGED netVars
    /\ UNCHANGED peerVars

\* ------------------------------------------- protocol/thread.py, continued
distribute(file_path, block_size, duplication, validation) ==
    [type |-> "distribute", file_path |-> file_path, block_size |-> block_size,
     duplication |-> duplication, validation |-> validation]
restore(real_file, virtual_file) ==
    [type |-> "restore", real_file |-> real_file, virtual_file |-> virtual_file]
reconstruct == [type |-> "reconstruct"]
delete(virtual_file) == [type |-> "delete", virtual_file |-> virtual_file]
connected(ip) == [type |-> "connected", ip |-> ip]
disconnected(client) == [type |-> "disconnected", client |-> client]
kill_thread(name) == [type |-> "kill_thread", name |-> name]
thread_list(threads) == [type |-> "thread_list", thread_list |-> threads]
file_list(files) == [type |-> "file_list", files |-> files]
client_list(clientList) == [type |-> "client_list", clients |-> clientList]

\* ------------------------------------------- protocol/server.py, continued
\* the '*' that is the default of block_type and of number
AnyType == "*"
AnyNumber == -1
ask_block(name) ==
    build([type |-> "ask_block", block_type |-> AnyType, name |-> name,
           number |-> AnyNumber])
delete_block(name) ==
    build([type |-> "delete_block", block_type |-> AnyType, name |-> name,
           number |-> AnyNumber])
ask_storage_state == build([type |-> "ask_storage_state"])
ask_disk_state == build([type |-> "ask_disk_state"])
\* the client '*' of a message that goes to every client
Everyone == 0

\* ------------------------------------------------------ logic.py: LogicThread
\* file_size / block_size, plus one when file_size % block_size != 0
BlockNumber(file_size, block_size) == CeilDiv(file_size, block_size)

\* the entry add_running_thread makes; the queue of the thread is kept in
\* the locals of the thread
RunningThread(thread_type, name, file_size, block_number, duplication_level, validation_level, key) ==
    [thread_type |-> thread_type, name |-> name, file_size |-> file_size,
     block_number |-> block_number, duplication |-> duplication_level,
     validation |-> validation_level, key |-> key]

\* update_thread_list: the message put on the gui queue (and on the
\* reconstruct queue when there is one), without the queue and the key
UpdateThreadList(threads) ==
    thread_list([id \in DOMAIN threads |->
        [thread_type |-> threads[id].thread_type, name |-> threads[id].name,
         file_size |-> threads[id].file_size,
         block_number |-> threads[id].block_number,
         duplication |-> threads[id].duplication,
         validation |-> threads[id].validation]])
ReconAfterThreadList(r, threads) ==
    IF r.has_queue THEN [r EXCEPT !.queue = Append(@, UpdateThreadList(threads))]
    ELSE r

\* update_storage_state: the file list for the gui (the rows without the
\* key), and the two requests for every client
StorageStateGui(rows) ==
    file_list([i \in 1..Len(rows) |->
        [name |-> rows[i].name, file_size |-> rows[i].file_size,
         block_number |-> rows[i].block_number,
         duplication |-> rows[i].duplication,
         validation |-> rows[i].validation]])
StorageStateNet ==
    <<send(ask_storage_state, Everyone), send(ask_disk_state, Everyone)>>

\* database.py: insert appends a row, query returns the first row of the
\* name, delete removes every row of the name
Insert(rows, record) == Append(rows, record)
QueryRows(rows, file_name) == SelectSeq(rows, LAMBDA r : r.name = file_name)
DeleteRows(rows, file_name) == SelectSeq(rows, LAMBDA r : r.name # file_name)

\* what a connected peer does with a delete_block message
ClientDeleteBlock(dir, name) == Without(dir, {k \in DOMAIN dir : GlobName(name, k[1])})

\* a send_message that loses the message
LogicSendMessageDropped(received) ==
    /\ network_queue' = network_queue
    /\ UNCHANGED <<store, dist, rest, recon, pending, clients, running_threads, db,
                   gui_queue, next_ident>>
\* send_message: the message goes to the sender queue.  The way from there
\* to the peer is taken in the same step: NetworkSenderThread.run writes it
\* to the socket of the client, the peer daemon parses it and stores the
\* block.
LogicSendMessage(received) ==
    /\ network_queue' = Append(network_queue, received)
    /\ LET m == parse(received.message)
       IN store' = [p \in DOMAIN store |->
                      IF (received.client = p) /\ p \in peer_up
                         /\ m.type = "send_block"
                      THEN ClientSendBlock(store[p], m)
                      ELSE store[p]]
    /\ UNCHANGED <<dist, rest, recon, pending, clients, running_threads, db,
                   gui_queue, next_ident>>

\* distribute: the thread is created and started, then registered; os.stat
\* raises when the file does not exist, after the thread was started
LogicDistribute(received) ==
    \E key \in Keys :
        /\ dist' = (next_ident :>
                      NewDistributeThread(received.file_path, received.block_size,
                                          received.duplication, received.validation,
                                          clients, key)) @@ dist
        /\ next_ident' = next_ident + 1
        /\ IF received.file_path \in DOMAIN fs
           THEN LET file_size == Len(fs[received.file_path])
                    threads == (next_ident :>
                        RunningThread("distribute", Basename(received.file_path),
                                      file_size,
                                      BlockNumber(file_size, received.block_size),
                                      received.duplication, received.validation, key))
                        @@ running_threads
                IN /\ running_threads' = threads
                   /\ gui_queue' = Append(gui_queue, UpdateThreadList(threads))
                   /\ recon' = ReconAfterThreadList(recon, threads)
           ELSE UNCHANGED <<running_threads, gui_queue, recon>>
        /\ UNCHANGED <<rest, store, pending, clients, db, network_queue>>

\* restore: the record is queried (indexing None raises when there is no
\* row), the thread is created and registered, an ask_block goes to every
\* client; a connected peer has the request from then on
LogicRestore(received) ==
    LET query == QueryRows(db, received.virtual_file)
    IN IF query = <<>>
       THEN UNCHANGED <<dist, rest, recon, store, pending, clients, running_threads,
                        db, gui_queue, network_queue, next_ident>>
       ELSE LET row == query[1]
                threads == (next_ident :>
                    RunningThread("restore", received.virtual_file, row.file_size,
                                  row.block_number, row.duplication, row.validation,
                                  row.key)) @@ running_threads
            IN /\ rest' = (next_ident :>
                             NewRestoreThread(received.real_file, received.virtual_file,
                                              row.block_number, row.validation,
                                              clients, row.key)) @@ rest
               /\ next_ident' = next_ident + 1
               /\ running_threads' = threads
               /\ gui_queue' = Append(gui_queue, UpdateThreadList(threads))
               /\ recon' = ReconAfterThreadList(recon, threads)
               /\ network_queue' = network_queue \o
                      [i \in 1..Len(clients) |->
                          send(ask_block(received.virtual_file), clients[i])]
               /\ pending' = [p \in DOMAIN pending |->
                                IF p \in Range(clients) /\ p \in peer_up
                                THEN pending[p] \cup {received.virtual_file}
                                ELSE pending[p]]
               /\ UNCHANGED <<dist, store, clients, db>>

\* reconstruct: the queue is created, then the constructor of
\* ReconstructThread raises TypeError (it has no parameter file_records)
LogicReconstruct(received) ==
    /\ recon' = [recon EXCEPT !.has_queue = TRUE, !.queue = <<>>]
    /\ UNCHANGED <<dist, rest, store, pending, clients, running_threads, db,
                   gui_queue, network_queue, next_ident>>

\* delete: delete_block goes to every client, the rows of the name are
\* removed, update_storage_state
DeleteEffects(file_name) ==
    /\ store' = [p \in DOMAIN store |->
                    IF p \in peer_up THEN ClientDeleteBlock(store[p], file_name)
                    ELSE store[p]]
    /\ db' = DeleteRows(db, file_name)
LogicDelete(received) ==
    /\ DeleteEffects(received.virtual_file)
    /\ network_queue' = network_queue \o
          <<send(delete_block(received.virtual_file), Everyone)>> \o StorageStateNet
    /\ gui_queue' = Append(gui_queue, StorageStateGui(db'))
    /\ UNCHANGED <<dist, rest, recon, pending, clients, running_threads, next_ident>>

\* connected: the client is appended, update_client_state
LogicConnected(received) ==
    /\ clients' = Append(clients, received.ip)
    /\ gui_queue' = gui_queue \o <<client_list(clients'), StorageStateGui(db)>>
    /\ network_queue' = network_queue \o StorageStateNet
    /\ UNCHANGED <<dist, rest, recon, store, pending, running_threads, db, next_ident>>

\* list.remove: the first occurrence of x is taken out of the list
ListRemove(list, x) ==
    LET at == {i \in DOMAIN list : list[i] = x}
        first == CHOOSE i \in at : \A j \in at : i <= j
    IN IF at = {} THEN list
       ELSE SubSeq(list, 1, first - 1) \o SubSeq(list, first + 1, Len(list))
\* disconnected: the client is removed; len() of the generator of the
\* distribute threads raises TypeError, which do_loop catches: nothing of
\* what follows in the handler is done
LogicDisconnected(received) ==
    /\ clients' = ListRemove(clients, received.client)
    /\ UNCHANGED <<dist, rest, recon, store, pending, running_threads, db,
                   gui_queue, network_queue, next_ident>>

\* a thread_exit that inserts whatever the distribute thread reports
InsertsAlways(thread_dict, received) == thread_dict.thread_type = "distribute"
\* thread_exit inserts the record of a distribute thread that reports success
Inserts(thread_dict, received) ==
    thread_dict.thread_type = "distribute" /\ received.success
\* the record thread_exit builds from the entry of the thread
Record(thread_dict) ==
    [name |-> thread_dict.name, file_size |-> thread_dict.file_size,
     block_number |-> thread_dict.block_number,
     duplication |-> thread_dict.duplication,
     validation |-> thread_dict.validation, key |-> thread_dict.key]

\* thread_exit of a distribute or restore thread: a distribute that
\* succeeded is inserted, one that failed is deleted from the storage; the
\* thread is unregistered; update_storage_state, update_thread_list.
\* running_threads[thread_id] raises KeyError for an unregistered thread.
LogicThreadExit(received) ==
    LET thread_id == received.thread_id
    IN IF thread_id = recon.thread_id
       THEN /\ recon' = [recon EXCEPT !.thread_id = 0, !.has_queue = FALSE,
                                      !.queue = <<>>]
            /\ gui_queue' = gui_queue \o
                  <<[type |-> "release_gui"], StorageStateGui(db),
                    UpdateThreadList(running_threads)>>
            /\ network_queue' = network_queue \o StorageStateNet
            /\ UNCHANGED <<dist, rest, store, pending, clients, running_threads, db,
                           next_ident>>
       ELSE IF thread_id \notin DOMAIN running_threads
       THEN UNCHANGED <<dist, rest, recon, store, pending, clients, running_threads,
                        db, gui_queue, network_queue, next_ident>>
       ELSE LET thread_dict == running_threads[thread_id]
                inserted == Inserts(thread_dict, received)
                deleted == thread_dict.thread_type = "distribute" /\ ~received.success
                threads == Without(running_threads, {thread_id})
            IN /\ IF inserted
                  THEN /\ db' = Insert(db, Record(thread_dict))
                       /\ UNCHANGED store
                  ELSE IF deleted
                  THEN DeleteEffects(thread_dict.name)
                  ELSE UNCHANGED <<db, store>>
               /\ running_threads' = threads
               /\ gui_queue' = gui_queue \o
                     (IF deleted THEN <<StorageStateGui(db')>> ELSE <<>>) \o
                     <<StorageStateGui(db'), UpdateThreadList(threads)>>
               /\ network_queue' = network_queue \o
                     (IF deleted
                      THEN <<send(delete_block(thread_dict.name), Everyone)>>
                           \o StorageStateNet
                      ELSE <<>>) \o StorageStateNet
               /\ recon' = ReconAfterThreadList(recon, threads)
               /\ UNCHANGED <<dist, rest, pending, clients, next_ident>>

\* kill_thread: exit is put on the queue of every registered thread of the name
LogicKillThread(received) ==
    LET hit(id) == id \in DOMAIN running_threads
                   /\ running_threads[id].name = received.name
    IN /\ dist' = [id \in DOMAIN dist |->
                     IF hit(id) THEN [dist[id] EXCEPT !.queue = Append(@, exit)]
                     ELSE dist[id]]
       /\ rest' = [id \in DOMAIN rest |->
                     IF hit(id) THEN [rest[id] EXCEPT !.queue = Append(@, exit)]
                     ELSE rest[id]]
       /\ UNCHANGED <<recon, store, pending, clients, running_threads, db,
                      gui_queue, network_queue, next_ident>>

\* error: the message is passed to the gui
LogicError(received) ==
    /\ gui_queue' = Append(gui_queue, received)
    /\ UNCHANGED <<dist, rest, recon, store, pending, clients, running_threads, db,
                   network_queue, next_ident>>

\* kill: the kill message of protocol/server.py is put on the sender queue
\* for the client, whether or not the client is connected
kill(client) == [type |-> "kill", client |-> client]
server_kill == build([type |-> "kill"])
LogicKill(received) ==
    /\ network_queue' = Append(network_queue, send(server_kill, received.client))
    /\ UNCHANGED <<dist, rest, recon, store, pending, clients, running_threads, db,
                   gui_queue, next_ident>>

\* ------------------------------------------------ logic.py: LogicThread.received
\* protocol/thread.py and client/protocol/client.py: the messages of a peer
received_event(message, client) == [type |-> "received", message |-> message, client |-> client]
block(block_type, name, number, content) ==
    build([type |-> "block", block_type |-> block_type, name |-> name,
           number |-> number, content |-> content])
file_sent(name) == build([type |-> "file_sent", name |-> name])
client_disk_state(total, free) ==
    build([type |-> "disk_state", total |-> total, free |-> free])
disk_state(client, total, free) ==
    [type |-> "disk_state", client |-> client, total |-> total, free |-> free]

\* A parsed value that is a map is the record of its keys; any other value
\* (a list, a number, a string) is a record with the one field value.
IsDict(message) == "value" \notin DOMAIN message

\* a handler that takes every frame that decodes to a map, whether or not
\* its bytes decompress
MalformedNotDict(received) == ~IsDict(parse(received.message))
\* the frame does not decompress or parse (protocol.parse raises, and so
\* does the use of the unbound name message that follows), or it does not
\* decode to a map (the handler returns)
Malformed(received) ==
    ParseFails(received.message) \/ ~IsDict(parse(received.message))

\* message['client'] = received['client']
Tag(message, client) ==
    [k \in DOMAIN message \cup {"client"} |->
        IF k = "client" THEN client ELSE message[k]]

\* a test that passes a message to every restore thread
MatchesRestore(thread, message) == thread.thread_type = "restore"
\* thread['name'] == message_name and thread_type == 'restore'
Matches(thread, message) ==
    thread.name = message.name /\ thread.thread_type = "restore"

\* received: a malformed frame is dropped; a block or a file_sent is put on
\* the queue of every matching thread; disk_state and storage_state go to
\* the gui; any other type is logged
LogicReceived(received) ==
    IF Malformed(received)
    THEN UNCHANGED <<dist, rest, recon, store, pending, clients, running_threads,
                     db, gui_queue, network_queue, next_ident>>
    ELSE LET message == Tag(parse(received.message), received.client)
             hit(id) == /\ id \in DOMAIN running_threads
                        /\ Matches(running_threads[id], message)
         IN IF message.type \in {"block", "file_sent"}
            THEN /\ rest' = [id \in DOMAIN rest |->
                               IF hit(id) THEN [rest[id] EXCEPT !.queue = Append(@, message)]
                               ELSE rest[id]]
                 /\ dist' = [id \in DOMAIN dist |->
                               IF hit(id) THEN [dist[id] EXCEPT !.queue = Append(@, message)]
                               ELSE dist[id]]
                 /\ UNCHANGED <<recon, store, pending, clients, running_threads, db,
                                gui_queue, network_queue, next_ident>>
            ELSE IF message.type = "disk_state"
            THEN /\ gui_queue' = Append(gui_queue,
                        disk_state(received.client, message.total, message.free))
                 /\ UNCHANGED <<dist, rest, recon, store, pending, clients,
                                running_threads, db, network_queue, next_ident>>
            ELSE IF message.type = "storage_state"
            THEN /\ gui_queue' = Append(gui_queue, message)
                 /\ UNCHANGED <<dist, rest, recon, store, pending, clients,
                                running_threads, db, network_queue, next_ident>>
            ELSE UNCHANGED <<dist, rest, recon, store, pending, clients,
                             running_threads, db, gui_queue, network_queue, next_ident>>

\* run(): one step of the main loop, an exception of the handler is caught
do_loop ==
    /\ logic_head < Len(logic_queue)
    /\ logic_head' = logic_head + 1
    /\ LET received == logic_queue[logic_head + 1]
           command == received.type
       IN CASE command = "send" -> LogicSendMessage(received)
            [] command = "distribute" -> LogicDistribute(received)
            [] command = "restore" -> LogicRestore(received)
            [] command = "reconstruct" -> LogicReconstruct(received)
            [] command = "connected" -> LogicConnected(received)
            [] command = "delete" -> LogicDelete(received)
            [] command = "thread_exit" -> LogicThreadExit(received)
            [] command = "kill_thread" -> LogicKillThread(received)
            [] command = "disconnected" -> LogicDisconnected(received)
            [] command = "error" -> LogicError(received)
            [] command = "received" -> LogicReceived(received)
            [] command = "kill" -> LogicKill(received)
            [] OTHER -> UNCHANGED <<dist, rest, recon, store, pending, clients,
                                    running_threads, db, gui_queue, network_queue,
                                    next_ident>>
    /\ UNCHANGED <<fs, dest, temp, logic_queue, peer_up, faults>>
    /\ UNCHANGED netVars
    /\ UNCHANGED peerVars

\* ------------------------------------------------------ server/network.py
new_socket(socket) == [type |-> "new_socket", socket |-> socket]

\* protocol.wrap / protocol.get_size: struct.pack('>L', len) is a big-endian
\* number of HeaderLen bytes in front of the payload (base 2 here, as bytes
\* are one bit wide)
HeaderLen == 4
Pack(n) == <<(n \div 8) % 2, (n \div 4) % 2, (n \div 2) % 2, n % 2>>
wrap(string) == Pack(Len(string)) \o string
get_size(string) == 8 * string[1] + 4 * string[2] + 2 * string[3] + string[4]

\* every order in which the keys of a dict may be iterated
Orders(S) == {o \in [1..Cardinality(S) -> S] : \A i, j \in DOMAIN o : o[i] = o[j] => i = j}

\* a sender that takes the newest message of its queue
SenderGetNewest(queue, head) == queue[Len(queue)]
\* network_queue.get(): the oldest message not taken yet
SenderGet(queue, head) == queue[head + 1]

\* NetworkSenderThread.send to the sockets of a broadcast, in the order the
\* dict is iterated: a send that fails reports the peer and deletes its
\* socket, and the iteration over the changed dict then raises RuntimeError.
\* The result is the peers written to, the peer that failed (0 for none).
RECURSIVE Broadcast(_, _)
Broadcast(order, failing) ==
    IF order = <<>> THEN [sent |-> {}, failed |-> 0]
    ELSE IF Head(order) \in failing THEN [sent |-> {}, failed |-> Head(order)]
    ELSE LET after == Broadcast(Tail(order), failing)
         IN [sent |-> {Head(order)} \cup after.sent, failed |-> after.failed]

\* NetworkSenderThread.run: one message is taken off the queue.  A send to
\* a socket whose peer has gone may fail or may still be accepted.
SenderRun ==
    /\ sender_running
    /\ network_head < Len(network_queue)
    /\ network_head' = network_head + 1
    /\ LET message == SenderGet(network_queue, network_head)
       IN /\ receiver_running' = (receiver_running /\ message.type # "exit")
          /\ CASE message.type = "send" ->
                    IF message.client = Everyone
                    THEN \E order \in Orders(sockets) :
                         \E failing \in SUBSET (sockets \ peer_up) :
                            LET b == Broadcast(order, failing)
                            IN /\ wire_out' = [p \in Peers |->
                                     IF p \in b.sent THEN Append(wire_out[p], message.message)
                                     ELSE wire_out[p]]
                               /\ IF b.failed = 0
                                  THEN UNCHANGED <<logic_queue, sockets, sender_running>>
                                  ELSE /\ logic_queue' = Append(logic_queue,
                                                                disconnected(b.failed))
                                       /\ sockets' = sockets \ {b.failed}
                                       /\ sender_running' = FALSE
                    ELSE IF message.client \notin sockets
                    THEN \* self.sockets[client] raises KeyError
                         /\ sender_running' = FALSE
                         /\ UNCHANGED <<logic_queue, sockets, wire_out>>
                    ELSE \E fails \in (IF message.client \in peer_up THEN {FALSE}
                                       ELSE {FALSE, TRUE}) :
                            IF fails
                            THEN /\ logic_queue' = Append(logic_queue,
                                                          disconnected(message.client))
                                 /\ sockets' = sockets \ {message.client}
                                 /\ UNCHANGED <<wire_out, sender_running>>
                            ELSE /\ wire_out' = [wire_out EXCEPT ![message.client] =
                                                    Append(@, message.message)]
                                 /\ UNCHANGED <<logic_queue, sockets, sender_running>>
               [] message.type = "new_socket" ->
                    /\ sockets' = sockets \cup {message.socket}
                    /\ logic_queue' = Append(logic_queue, connected(message.socket))
                    /\ UNCHANGED <<wire_out, sender_running>>
               [] message.type = "disconnected" ->
                    IF message.client \in sockets
                    THEN /\ sockets' = sockets \ {message.client}
                         /\ UNCHANGED <<logic_queue, wire_out, sender_running>>
                    ELSE \* del self.sockets[ip] raises KeyError
                         /\ sender_running' = FALSE
                         /\ UNCHANGED <<logic_queue, sockets, wire_out>>
               [] OTHER ->
                    /\ sender_running' = (message.type # "exit")
                    /\ UNCHANGED <<logic_queue, sockets, wire_out>>
    /\ UNCHANGED <<fs, dest, temp, logic_head, dist, rest, recon, store, peer_up,
                   pending, faults>>
    /\ UNCHANGED <<clients, running_threads, db, gui_queue, network_queue, next_ident>>
    /\ UNCHANGED <<recv_sockets, messages, inbound, frames>>
    /\ UNCHANGED peerVars

\* NetworkReceiverThread.receive: what follows a recv that returned ''
ReportClosed(p, published) ==
    /\ logic_queue' = logic_queue \o <<disconnected(p)>> \o published
    /\ network_queue' = Append(network_queue, disconnected(p))
    /\ recv_sockets' = recv_sockets \ {p}

\* NetworkReceiverThread.run: select reports the socket of p readable (bytes
\* have arrived or the peer has closed) and one recv is made, which returns
\* n of the bytes asked for; n = 0 stands for the empty string.
ReceiverRead(p, n) ==
    /\ receiver_running
    /\ p \in recv_sockets
    /\ inbound[p] # <<>> \/ p \notin peer_up
    /\ LET asked == IF p \in DOMAIN messages THEN messages[p][2] ELSE HeaderLen
           most == Min(asked, Len(inbound[p]))
           got == SubSeq(inbound[p], 1, n)
       IN /\ IF most = 0 THEN n = 0 ELSE n \in 1..most
          /\ inbound' = [inbound EXCEPT ![p] = SubSeq(@, n + 1, Len(@))]
          /\ IF p \in DOMAIN messages
             THEN LET content == messages[p][1] \o got
                      missing_bytes == messages[p][2] - n
                      published == IF missing_bytes = 0
                                   THEN <<received_event(content, p)>> ELSE <<>>
                  IN /\ messages' = IF missing_bytes = 0 THEN Without(messages, {p})
                                    ELSE (p :> <<content, missing_bytes>>) @@ messages
                     /\ IF n = 0
                        THEN ReportClosed(p, published)
                        ELSE /\ logic_queue' = logic_queue \o published
                             /\ UNCHANGED <<network_queue, recv_sockets>>
                     /\ UNCHANGED receiver_running
             ELSE IF n = 0
             THEN /\ ReportClosed(p, <<>>)
                  /\ UNCHANGED <<messages, receiver_running>>
             ELSE IF n < HeaderLen
             THEN \* struct.unpack raises: the thread ends
                  /\ receiver_running' = FALSE
                  /\ UNCHANGED <<messages, logic_queue, network_queue, recv_sockets>>
             ELSE /\ messages' = (p :> <<<<>>, get_size(got)>>) @@ messages
                  /\ UNCHANGED <<logic_queue, network_queue, recv_sockets,
                                 receiver_running>>
    /\ UNCHANGED <<fs, dest, temp, logic_head, dist, rest, recon, store, peer_up,
                   pending, faults>>
    /\ UNCHANGED <<clients, running_threads, db, gui_queue, next_ident>>
    /\ UNCHANGED <<sockets, network_head, sender_running, wire_out, frames>>
    /\ UNCHANGED peerVars

\* a peer connects: the receiver accepts it and hands the socket to the sender
ReceiverAccept(p) ==
    /\ receiver_running
    /\ p \notin peer_up
    /\ \A i \in DOMAIN network_queue :
          network_queue[i].type = "new_socket" => network_queue[i].socket # p
    /\ peer_up' = peer_up \cup {p}
    /\ recv_sockets' = recv_sockets \cup {p}
    /\ network_queue' = Append(network_queue, new_socket(p))
    /\ UNCHANGED <<fs, dest, temp, logic_queue, logic_head, dist, rest, recon, store,
                   pending, faults>>
    /\ UNCHANGED <<clients, running_threads, db, gui_queue, next_ident>>
    /\ UNCHANGED <<sockets, network_head, sender_running, wire_out, messages,
                   inbound, frames, receiver_running>>
    /\ UNCHANGED peerVars

\* ------------------------------------------------------------ environment
InputPath == <<"in", <<"f">>>>
OutputPath == <<"out", <<"f">>>>
DistId == 1
RestId == 2
Files == UNION {[1..n -> Byte] : n \in 0..MaxFileSize}

\* the file is in the file list and the coordinator has nothing to do
Distributed ==
    /\ db # <<>>
    /\ logic_head = Len(logic_queue)

\* the messages of one type put on the logic queue so far
Requests(type) == {i \in DOMAIN logic_queue : logic_queue[i].type = type}

\* the user asks for a file of the file list to be restored
GuiRestore ==
    /\ db # <<>>
    /\ rest = EmptyMap
    /\ \A i \in Requests("restore") : i <= logic_head
    /\ logic_queue' = Append(logic_queue, restore(OutputPath, db[1].name))
    /\ UNCHANGED <<fs, dest, temp, logic_head, dist, rest, recon, store, peer_up,
                   pending, faults>>
    /\ UNCHANGED coordVars
    /\ UNCHANGED netVars
    /\ UNCHANGED peerVars

\* the user asks for a file to be distributed; the gui refuses a file whose
\* base name is in its file list (taken here to be up to date)
GuiDistribute(file_path, block_size, duplication, validation) ==
    /\ Cardinality(Requests("distribute")) < MaxRequests
    /\ QueryRows(db, Basename(file_path)) = <<>>
    /\ logic_queue' = Append(logic_queue,
                             distribute(file_path, block_size, duplication, validation))
    /\ UNCHANGED <<fs, dest, temp, logic_head, dist, rest, recon, store, peer_up,
                   pending, faults>>
    /\ UNCHANGED coordVars
    /\ UNCHANGED netVars
    /\ UNCHANGED peerVars

\* the user kills a thread of the thread list
GuiKillThread(name) ==
    /\ Cardinality(Requests("kill_thread")) < MaxKills
    /\ \E id \in DOMAIN running_threads : running_threads[id].name = name
    /\ logic_queue' = Append(logic_queue, kill_thread(name))
    /\ UNCHANGED <<fs, dest, temp, logic_head, dist, rest, recon, store, peer_up,
                   pending, faults>>
    /\ UNCHANGED coordVars
    /\ UNCHANGED netVars
    /\ UNCHANGED peerVars

\* A peer answers an ask_block (client/logic.py); LogicThread.received puts
\* every block and the file_sent on the queue of the registered restore
\* threads whose file name equals the name in the message.
Waiting(id, name) ==
    /\ id \in DOMAIN running_threads
    /\ running_threads[id].thread_type = "restore"
    /\ running_threads[id].name = name
PeerAnswer(p) ==
    /\ p \in peer_up
    /\ pending[p] # {}
    /\ \E name \in pending[p] :
         LET answer == ClientAskBlock(store[p], name, p)
         IN /\ rest' = [id \in DOMAIN rest |->
                          [rest[id] EXCEPT !.queue = @ \o
                              SelectSeq(answer, LAMBDA m : Waiting(id, m.name))]]
            /\ pending' = [pending EXCEPT ![p] = @ \ {name}]
    /\ UNCHANGED <<fs, dest, temp, logic_queue, logic_head, dist, recon, store,
                   peer_up, faults>>
    /\ UNCHANGED coordVars
    /\ UNCHANGED netVars
    /\ UNCHANGED peerVars

\* The collection loop run to its end in one step: every client answers the
\* ask_block, and the thread takes every block and every file_sent off its
\* queue, in the order the clients are listed.
RECURSIVE StageAll(_, _, _)
StageAll(t, tmp, answers) ==
    IF answers = <<>> THEN tmp
    ELSE StageAll(t, IF Head(answers).type = "block"
                     THEN ReceivedBlock(t, tmp, Head(answers)) ELSE tmp,
                  Tail(answers))

RECURSIVE Answers(_, _)
Answers(ps, name) ==
    IF ps = <<>> THEN <<>>
    ELSE SelectSeq(ClientAskBlock(store[Head(ps)], name, Head(ps)),
                   LAMBDA m : m.name = name) \o Answers(Tail(ps), name)

RestoreCollectAll(id) ==
    /\ id \in DOMAIN rest
    /\ rest[id].pc = "collect"
    /\ rest[id].queue = <<>>
    /\ Waiting(id, rest[id].virtual_file)
    /\ LET t == rest[id]
           ps == SortedSeq(DOMAIN t.clients)
       IN /\ \A p \in DOMAIN t.clients : p \in peer_up /\ t.virtual_file \in pending[p]
          /\ temp' = StageAll(t, temp, Answers(ps, t.virtual_file))
          /\ rest' = [rest EXCEPT ![id].pc = "process",
                                  ![id].clients = [c \in DOMAIN t.clients |-> TRUE]]
          /\ pending' = [p \in DOMAIN pending |->
                            IF p \in DOMAIN t.clients THEN pending[p] \ {t.virtual_file}
                            ELSE pending[p]]
    /\ UNCHANGED <<fs, dest, logic_queue, logic_head, dist, recon, store, peer_up, faults>>
    /\ UNCHANGED coordVars
    /\ UNCHANGED netVars
    /\ UNCHANGED peerVars

\* ------------------------------------------------------------------ faults
\* a stored block disappears from a peer (a failed write, a deleted file)
LoseBlock(p, k) ==
    /\ Distributed
    /\ rest = EmptyMap
    /\ faults < MaxFaults
    /\ k \in DOMAIN store[p]
    /\ store' = [store EXCEPT ![p] = Without(@, {k})]
    /\ faults' = faults + 1
    /\ UNCHANGED <<fs, dest, temp, logic_queue, logic_head, dist, rest, recon,
                   peer_up, pending>>
    /\ UNCHANGED coordVars
    /\ UNCHANGED netVars
    /\ UNCHANGED peerVars

\* one byte of a stored block is flipped; a serialized object no longer
\* decompresses afterwards
Flip(content, i) == [content EXCEPT ![i] = XorByte(@, 1)]
CorruptBlock(p, k) ==
    /\ Distributed
    /\ rest = EmptyMap
    /\ faults < MaxFaults
    /\ k \in DOMAIN store[p]
    /\ IF k[3] = METADATA_BLOCK
       THEN store' = [store EXCEPT ![p][k].ok = FALSE]
       ELSE \E i \in 1..Len(store[p][k]) :
               store' = [store EXCEPT ![p][k] = Flip(@, i)]
    /\ faults' = faults + 1
    /\ UNCHANGED <<fs, dest, temp, logic_queue, logic_head, dist, rest, recon,
                   peer_up, pending>>
    /\ UNCHANGED coordVars
    /\ UNCHANGED netVars
    /\ UNCHANGED peerVars

\* a peer goes away: the network thread reports it to the coordinator
PeerDown(p) ==
    /\ p \in peer_up
    /\ faults < MaxFaults
    /\ peer_up' = peer_up \ {p}
    /\ faults' = faults + 1
    /\ logic_queue' = Append(logic_queue, disconnected(p))
    /\ UNCHANGED <<fs, dest, temp, logic_head, dist, rest, recon, store, pending>>
    /\ UNCHANGED coordVars
    /\ UNCHANGED netVars
    /\ UNCHANGED peerVars

\* ---------------------------------------------------------- specification
\* the network threads of a server whose connected peers are quiet: both
\* threads hold a socket of every connected peer, nothing is in flight
\* every peer daemon has just started: nothing taken, nothing queued, every
\* block file readable
PeersIdle ==
    /\ peer_head = [p \in Peers |-> 0]
    /\ peer_out = [p \in Peers |-> <<>>]
    /\ unreadable = [p \in Peers |-> {}]
    /\ peer_running = [p \in Peers |-> TRUE]

NetIdle ==
    /\ sockets = peer_up
    /\ recv_sockets = peer_up
    /\ network_head = 0
    /\ sender_running = TRUE
    /\ receiver_running = TRUE
    /\ wire_out = [p \in Peers |-> <<>>]
    /\ messages = EmptyMap
    /\ inbound = [p \in Peers |-> <<>>]
    /\ frames = [p \in Peers |-> <<>>]

\* The coordinator runs with P clients connected; the user has asked for a
\* file to be distributed.
Init ==
    /\ \E F \in Files : fs = (InputPath :> F)
    /\ \E block_size \in 1..MaxBlockSize, duplication \in 1..MaxDup,
          validation \in 2..MaxVal, P \in 0..MaxPeers :
         /\ logic_queue = <<distribute(InputPath, block_size, duplication, validation)>>
         /\ peer_up = 1..P
         /\ clients = [i \in 1..P |-> i]
    /\ dest = EmptyMap
    /\ temp = EmptyMap
    /\ logic_head = 0
    /\ dist = EmptyMap
    /\ rest = EmptyMap
    /\ recon = [has_queue |-> FALSE, queue |-> <<>>, thread_id |-> 0]
    /\ store = [p \in Peers |-> EmptyMap]
    /\ pending = [p \in Peers |-> {}]
    /\ faults = 0
    /\ running_threads = EmptyMap
    /\ db = <<>>
    /\ gui_queue = <<>>
    /\ network_queue = <<>>
    /\ next_ident = 1
    /\ NetIdle
    /\ PeersIdle

Next ==
    \/ do_loop
    \/ \E id \in ThreadIds : DistStart(id)
    \/ \E id \in ThreadIds : DistPoll(id)
    \/ \E id \in ThreadIds : DistBlock(id)
    \/ \E id \in ThreadIds : DistFinish(id)
    \/ GuiRestore
    \/ \E p \in Peers : PeerAnswer(p)
    \/ \E p \in Peers : pending[p] # {} /\ PeerDown(p)
    \/ \E id \in ThreadIds : RestoreReceive(id)
    \/ \E id \in ThreadIds : RestoreCollected(id)
    \/ \E id \in ThreadIds : RestoreTimeout(id)
    \/ \E id \in ThreadIds : RestoreProcess(id)

\* one distribute and one restore; a peer may go away while the restore
\* waits for its answer
Spec == Init /\ [][Next]_vars

\* The same tasks with faulty storage: between the distribute and the
\* restore, stored blocks are lost or corrupted.
NextFault ==
    \/ do_loop
    \/ \E id \in ThreadIds : DistStart(id)
    \/ \E id \in ThreadIds : DistPoll(id)
    \/ \E id \in ThreadIds : DistBlock(id)
    \/ \E id \in ThreadIds : DistFinish(id)
    \/ \E p \in Peers : \E k \in DOMAIN store[p] : LoseBlock(p, k)
    \/ \E p \in Peers : \E k \in DOMAIN store[p] : CorruptBlock(p, k)
    \/ GuiRestore
    \/ \E id \in ThreadIds : RestoreCollectAll(id)
    \/ \E id \in ThreadIds : RestoreProcess(id)

SpecFault == Init /\ [][NextFault]_vars

\* The coordinator and its tasks under the requests of the user: files of
\* one base name are distributed, threads are killed, peers go away.
OtherPath == <<"other", <<"f">>>>
InitCoord ==
    /\ fs = (InputPath :> <<0>>) @@ (OtherPath :> <<1>>)
    /\ \E P \in 1..MaxPeers :
         /\ peer_up = 1..P
         /\ clients = [i \in 1..P |-> i]
    /\ logic_queue = <<>>
    /\ dest = EmptyMap
    /\ temp = EmptyMap
    /\ logic_head = 0
    /\ dist = EmptyMap
    /\ rest = EmptyMap
    /\ recon = [has_queue |-> FALSE, queue |-> <<>>, thread_id |-> 0]
    /\ store = [p \in Peers |-> EmptyMap]
    /\ pending = [p \in Peers |-> {}]
    /\ faults = 0
    /\ running_threads = EmptyMap
    /\ db = <<>>
    /\ gui_queue = <<>>
    /\ network_queue = <<>>
    /\ next_ident = 1
    /\ NetIdle
    /\ PeersIdle

NextCoord ==
    \/ do_loop
    \/ \E file_path \in DOMAIN fs : GuiDistribute(file_path, 1, 1, 2)
    \/ \E p \in Peers : PeerDown(p)
    \/ \E id \in ThreadIds : DistStart(id)
    \/ \E id \in ThreadIds : DistPoll(id)
    \/ \E id \in ThreadIds : DistBlock(id)
    \/ \E id \in ThreadIds : DistFinish(id)

SpecCoord == InitCoord /\ [][NextCoord]_vars

\* One distribute and one restore, with the user killing the thread of the
\* file at any moment.
NextCancel ==
    \/ do_loop
    \/ GuiKillThread(Basename(InputPath))
    \/ GuiRestore
    \/ \E id \in ThreadIds : DistStart(id)
    \/ \E id \in ThreadIds : DistPoll(id)
    \/ \E id \in ThreadIds : DistBlock(id)
    \/ \E id \in ThreadIds : DistFinish(id)
    \/ \E p \in Peers : PeerAnswer(p)
    \/ \E id \in ThreadIds : RestoreReceive(id)
    \/ \E id \in ThreadIds : RestoreCollected(id)
    \/ \E id \in ThreadIds : RestoreProcess(id)

SpecCancel == Init /\ [][NextCancel]_vars

\* The coordinator under distribute requests of one base name, one of them
\* for a path that does not exist, with the user killing the threads of the
\* name at any moment.
MissingPath == <<"gone", <<"f">>>>
NextKill ==
    \/ do_loop
    \/ \E file_path \in DOMAIN fs \cup {MissingPath} : GuiDistribute(file_path, 1, 1, 2)
    \/ GuiKillThread(Basename(InputPath))
    \/ \E id \in ThreadIds : DistStart(id)
    \/ \E id \in ThreadIds : DistPoll(id)
    \/ \E id \in ThreadIds : DistBlock(id)
    \/ \E id \in ThreadIds : DistFinish(id)

SpecKill == InitCoord /\ [][NextKill]_vars

\* The coordinator with two files in the storage, under restore, delete and
\* distribute requests of the user and under frames of the peers.  A peer
\* is a program of its own: a frame may hold any bytes.
MaxFrames == 2
StoredNames == {<<"g">>, <<"h">>}
OutputOf(name) == <<"out", name>>
\* the row and the stored block of a one byte file distributed with block
\* size 1, duplication 1 and validation 2 to the first client
StoredRow(name) ==
    Record(RunningThread("distribute", name, 1, BlockNumber(1, 1), 1, 2, 1))
StoredBlock(name) == <<name, 1, DATA_BLOCK>> :> encrypt(1, <<0>>)

\* the frames a peer sends: blocks and file_sent of the stored names, a
\* disk state, a frame that does not decompress, a frame that is no map
Payloads ==
    {block(DATA_BLOCK, name, 1, encrypt(1, <<0>>)) : name \in StoredNames}
    \cup {file_sent(name) : name \in StoredNames}
    \cup {client_disk_state(2, 1),
          [file_sent(<<"g">>) EXCEPT !.ok = FALSE],
          build([value |-> 1])}

\* the network receiver publishes a frame of a connected peer
PeerFrame(p, payload) ==
    /\ p \in peer_up
    /\ Cardinality(Requests("received")) < MaxFrames
    /\ logic_queue' = Append(logic_queue, received_event(payload, p))
    /\ UNCHANGED <<fs, dest, temp, logic_head, dist, rest, recon, store, peer_up,
                   pending, faults>>
    /\ UNCHANGED coordVars
    /\ UNCHANGED netVars
    /\ UNCHANGED peerVars

\* the user asks for a file of the file list to be restored; the list is
\* the one the gui was last sent, which may be ahead of a delete it has put
GuiRestoreFile(virtual_file) ==
    /\ \A i \in Requests("restore") : logic_queue[i].virtual_file # virtual_file
    /\ logic_queue' = Append(logic_queue, restore(OutputOf(virtual_file), virtual_file))
    /\ UNCHANGED <<fs, dest, temp, logic_head, dist, rest, recon, store, peer_up,
                   pending, faults>>
    /\ UNCHANGED coordVars
    /\ UNCHANGED netVars
    /\ UNCHANGED peerVars

\* the user deletes a file of the file list
GuiDelete(virtual_file) ==
    /\ Requests("delete") = {}
    /\ \A i \in Requests("restore") : logic_queue[i].virtual_file # virtual_file
    /\ logic_queue' = Append(logic_queue, delete(virtual_file))
    /\ UNCHANGED <<fs, dest, temp, logic_head, dist, rest, recon, store, peer_up,
                   pending, faults>>
    /\ UNCHANGED coordVars
    /\ UNCHANGED netVars
    /\ UNCHANGED peerVars

InitRecv ==
    /\ fs = (InputPath :> <<0>>)
    /\ \E P \in 1..MaxPeers :
         /\ peer_up = 1..P
         /\ clients = [i \in 1..P |-> i]
    /\ db = <<StoredRow(<<"g">>), StoredRow(<<"h">>)>>
    /\ store = [p \in Peers |->
                  IF p = 1 THEN StoredBlock(<<"g">>) @@ StoredBlock(<<"h">>)
                  ELSE EmptyMap]
    /\ logic_queue = <<>>
    /\ dest = EmptyMap
    /\ temp = EmptyMap
    /\ logic_head = 0
    /\ dist = EmptyMap
    /\ rest = EmptyMap
    /\ recon = [has_queue |-> FALSE, queue |-> <<>>, thread_id |-> 0]
    /\ pending = [p \in Peers |-> {}]
    /\ faults = 0
    /\ running_threads = EmptyMap
    /\ gui_queue = <<>>
    /\ network_queue = <<>>
    /\ next_ident = 1
    /\ NetIdle
    /\ PeersIdle

NextRecv ==
    \/ do_loop
    \/ \E virtual_file \in StoredNames : GuiRestoreFile(virtual_file)
    \/ GuiDelete(<<"g">>)
    \/ Requests("distribute") = {} /\ GuiDistribute(InputPath, 1, 1, 2)
    \/ \E p \in Peers : \E payload \in Payloads : PeerFrame(p, payload)
    \/ \E id \in ThreadIds : RestoreReceive(id)

SpecRecv == InitRecv /\ [][NextRecv]_vars

\* The two network threads of the server: peers connect, send frames and
\* go away, the coordinator submits messages for the peers it was told of.
MaxSends == 3
MaxPayload == 2
MaxWrites == 2
FramePayloads == UNION {[1..n -> Byte] : n \in 0..MaxPayload}

\* the peers the coordinator has been told of
Announced == {logic_queue[i].ip : i \in Requests("connected")}
\* the send messages put on the sender queue so far
Submissions == {i \in DOMAIN network_queue : network_queue[i].type = "send"}

\* LogicThread.send_message and the broadcasts of the coordinator: a
\* message is put on the sender queue; the block number tells them apart
Submit(client) ==
    /\ Cardinality(Submissions) < MaxSends
    /\ client = Everyone \/ client \in Announced
    /\ network_queue' = Append(network_queue,
          send(send_block(DATA_BLOCK, <<"f">>, Cardinality(Submissions) + 1, <<0>>),
               client))
    /\ UNCHANGED <<fs, dest, temp, logic_queue, logic_head, dist, rest, recon, store,
                   peer_up, pending, faults>>
    /\ UNCHANGED <<clients, running_threads, db, gui_queue, next_ident>>
    /\ UNCHANGED netVars
    /\ UNCHANGED peerVars

\* the number of frames the peers have sent
RECURSIVE SumLen(_, _)
SumLen(f, S) ==
    IF S = {} THEN 0
    ELSE LET x == CHOOSE x \in S : TRUE IN Len(f[x]) + SumLen(f, S \ {x})
FramesWritten == SumLen(frames, Peers)

\* a connected peer sends a frame
PeerWrite(p, payload) ==
    /\ p \in peer_up
    /\ FramesWritten < MaxWrites
    /\ inbound' = [inbound EXCEPT ![p] = @ \o wrap(payload)]
    /\ frames' = [frames EXCEPT ![p] = Append(@, payload)]
    /\ UNCHANGED <<fs, dest, temp, logic_queue, logic_head, dist, rest, recon, store,
                   peer_up, pending, faults>>
    /\ UNCHANGED coordVars
    /\ UNCHANGED <<sockets, network_head, sender_running, wire_out, recv_sockets,
                   messages, receiver_running>>
    /\ UNCHANGED peerVars

\* a connected peer closes its connection or dies
PeerClose(p) ==
    /\ p \in peer_up
    /\ peer_up' = peer_up \ {p}
    /\ UNCHANGED <<fs, dest, temp, logic_queue, logic_head, dist, rest, recon, store,
                   pending, faults>>
    /\ UNCHANGED coordVars
    /\ UNCHANGED netVars
    /\ UNCHANGED peerVars

InitNet ==
    /\ fs = EmptyMap
    /\ peer_up = {}
    /\ clients = <<>>
    /\ db = <<>>
    /\ store = [p \in Peers |-> EmptyMap]
    /\ logic_queue = <<>>
    /\ dest = EmptyMap
    /\ temp = EmptyMap
    /\ logic_head = 0
    /\ dist = EmptyMap
    /\ rest = EmptyMap
    /\ recon = [has_queue |-> FALSE, queue |-> <<>>, thread_id |-> 0]
    /\ pending = [p \in Peers |-> {}]
    /\ faults = 0
    /\ running_threads = EmptyMap
    /\ gui_queue = <<>>
    /\ network_queue = <<>>
    /\ next_ident = 1
    /\ NetIdle
    /\ PeersIdle

\* the sender under the messages of the coordinator and of the receiver
NextSend ==
    \/ SenderRun
    \/ \E client \in Peers \cup {Everyone} : Submit(client)
    \/ \E p \in Peers : ReceiverAccept(p)
    \/ \E p \in Peers : PeerClose(p)
    \/ \E p \in Peers : ReceiverRead(p, 0)

SpecSend == InitNet /\ [][NextSend]_vars

\* the receiver under the frames of the peers
NextWire ==
    \/ \E p \in Peers : ReceiverAccept(p)
    \/ \E p \in Peers : \E payload \in FramePayloads : PeerWrite(p, payload)
    \/ \E p \in Peers : PeerClose(p)
    \/ \E p \in Peers : \E n \in 0..HeaderLen : ReceiverRead(p, n)

SpecWire == InitNet /\ [][NextWire]_vars

\* ------------------------------------------- a restore of a damaged storage
\* A file was distributed with block size 1, duplication 3 and validation 2
\* to three peers: an empty file, of which nothing is stored, a file of one
\* block, of which every peer holds a copy and no metadata block was sent,
\* or a file of two blocks, of which every peer holds a copy of both blocks
\* and the first peer the metadata block of the one group.  Since then peers went away,
\* copies were lost or overwritten, the metadata was lost or damaged.
MaxCopies == 3
CopyPeers == 1..MaxCopies
CopyName == <<"f">>
CopyFiles == {<<>>, <<0>>, <<0, 1>>}
CopyKey == 1
CopyRow(file) ==
    Record(RunningThread("distribute", CopyName, Len(file),
                         BlockNumber(Len(file), 1), MaxCopies, 2, CopyKey))
CopyMetadata(file) ==
    ValidatorGetData(ValidatorUpdate(ValidatorUpdate(ValidatorInit, <<file[1]>>, 1),
                                     <<file[2]>>, 2))
\* what is left of a stored copy: nothing, or one byte
Copies == {None, <<0>>, <<1>>}
CopyData(p, copy, file) ==
    [k \in {<<CopyName, n, DATA_BLOCK>> :
               n \in {m \in 1..Len(file) : copy[<<p, m>>] # None}} |->
        encrypt(CopyKey, copy[<<p, k[2]>>])]
CopyMeta(p, meta, file) ==
    IF p = 1 /\ meta # "lost" /\ Len(file) = 2
    THEN <<CopyName, 1, METADATA_BLOCK>> :>
            [encrypt_packed(CopyKey, CopyMetadata(file)) EXCEPT !.ok = (meta = "intact")]
    ELSE EmptyMap

\* The user asks for the file to be restored, to a path in a directory that
\* exists or to one in a directory that does not.
InitCopies ==
    /\ \E real_file \in {OutputPath, MissingPath} :
          logic_queue = <<restore(real_file, CopyName)>>
    /\ \E file \in CopyFiles, P \in 0..MaxCopies :
          /\ peer_up = 1..P
          /\ clients = [i \in 1..P |-> i]
          /\ db = <<CopyRow(file)>>
          /\ \E copy \in [(1..P) \X (1..Len(file)) -> Copies],
                meta \in {"lost", "damaged", "intact"} :
                store = [p \in CopyPeers |->
                           IF p <= P
                           THEN CopyData(p, copy, file) @@ CopyMeta(p, meta, file)
                           ELSE EmptyMap]
    /\ fs = EmptyMap
    /\ dest = EmptyMap
    /\ temp = EmptyMap
    /\ logic_head = 0
    /\ dist = EmptyMap
    /\ rest = EmptyMap
    /\ recon = [has_queue |-> FALSE, queue |-> <<>>, thread_id |-> 0]
    /\ pending = [p \in CopyPeers |-> {}]
    /\ faults = 0
    /\ running_threads = EmptyMap
    /\ gui_queue = <<>>
    /\ network_queue = <<>>
    /\ next_ident = 1
    /\ sockets = peer_up
    /\ recv_sockets = peer_up
    /\ network_head = 0
    /\ sender_running = TRUE
    /\ receiver_running = TRUE
    /\ wire_out = [p \in CopyPeers |-> <<>>]
    /\ messages = EmptyMap
    /\ inbound = [p \in CopyPeers |-> <<>>]
    /\ frames = [p \in CopyPeers |-> <<>>]
    /\ peer_head = [p \in CopyPeers |-> 0]
    /\ peer_out = [p \in CopyPeers |-> <<>>]
    /\ unreadable = [p \in CopyPeers |-> {}]
    /\ peer_running = [p \in CopyPeers |-> TRUE]

NextCopies ==
    \/ do_loop
    \/ \E id \in ThreadIds : RestoreCollectAll(id)
    \/ \E id \in ThreadIds : RestoreProcess(id)

SpecCopies == InitCopies /\ [][NextCopies]_vars

\* ------------------------------------------------- a system reconstruction
MaxReconstructs == 1
\* gui.py: the user confirms the reconstruct dialog
GuiReconstruct ==
    /\ Cardinality(Requests("reconstruct")) < MaxReconstructs
    /\ logic_queue' = Append(logic_queue, reconstruct)
    /\ UNCHANGED <<fs, dest, temp, logic_head, dist, rest, recon, store, peer_up,
                   pending, faults>>
    /\ UNCHANGED coordVars
    /\ UNCHANGED netVars
    /\ UNCHANGED peerVars

\* a peer connects: the network sender reports it to the coordinator
PeerConnects(p) ==
    /\ p \notin peer_up
    /\ \A i \in Requests("connected") : logic_queue[i].ip # p
    /\ \A i \in Requests("disconnected") : logic_queue[i].client # p
    /\ peer_up' = peer_up \cup {p}
    /\ logic_queue' = Append(logic_queue, connected(p))
    /\ UNCHANGED <<fs, dest, temp, logic_head, dist, rest, recon, store, pending, faults>>
    /\ UNCHANGED coordVars
    /\ UNCHANGED netVars
    /\ UNCHANGED peerVars

\* gui.py: what control_buttons was last called with, after the window has
\* handled the messages of its queue: lock_gui disables the buttons,
\* release_gui enables them, client_list enables them when a client is
\* connected and disables them when none is
RECURSIVE ControlButtons(_, _)
ControlButtons(enable, handled) ==
    IF handled = <<>> THEN enable
    ELSE ControlButtons(
            CASE Head(handled).type = "lock_gui" -> FALSE
              [] Head(handled).type = "release_gui" -> TRUE
              [] Head(handled).type = "client_list" -> Len(Head(handled).clients) # 0
              [] OTHER -> enable,
            Tail(handled))

\* Two files are stored; the user asks for a reconstruction and for the
\* restore of a file, peers come and go.
NextRecon ==
    \/ do_loop
    \/ GuiReconstruct
    \/ GuiRestoreFile(<<"g">>)
    \/ \E p \in Peers : PeerConnects(p)
    \/ \E p \in Peers : PeerDown(p)
    \/ \E id \in ThreadIds : RestoreCollectAll(id)
    \/ \E id \in ThreadIds : RestoreProcess(id)

SpecRecon == InitRecv /\ [][NextRecon]_vars

\* ------------------------------------------------ client/logic.py: the daemon
\* glob(data_path, build_file_name(name, number, block_type)): the files
\* name_number.block_type, a '*' standing for any text
ClientGlob(dir, m) ==
    {k \in DOMAIN dir :
        /\ m.block_type = AnyType \/ k[3] = m.block_type
        /\ IF m.number = AnyNumber THEN GlobName(m.name, k[1])
           ELSE k[1] = m.name /\ k[2] = m.number}

\* a read that never fails
ReadableAll(files, cannot) == files
\* open(block, 'rb') and f.read(): the files whose read raises are skipped
Readable(files, cannot) == files \ cannot

\* ask_block: a block message for every matching file that was read, in the
\* order glob lists them, then file_sent of the name asked for
AskBlockAnswer(dir, order, cannot, name) ==
    LET read == SelectSeq(order, LAMBDA k : k \in Readable(Range(order), cannot))
    IN [i \in 1..Len(read) |-> block(read[i][3], read[i][1], read[i][2], dir[read[i]])]
       \o <<file_sent(name)>>

\* client/protocol/client.py: storage_state
client_storage_state(blocks) == build([type |-> "storage_state", blocks |-> blocks])
\* parse_file_name of every listed file
StorageStateAnswer(order) ==
    client_storage_state([i \in 1..Len(order) |->
        [name |-> order[i][1], number |-> order[i][2], block_type |-> order[i][3]]])

\* diskutil.total() and diskutil.free()
DiskTotal == 2
DiskFree == 1

\* delete_block: os.remove of the matching files in the order glob lists
\* them; the first file that cannot be removed ends the loop
RECURSIVE RemovedBefore(_, _)
RemovedBefore(order, stuck) ==
    IF order = <<>> \/ Head(order) \in stuck THEN {}
    ELSE {Head(order)} \cup RemovedBefore(Tail(order), stuck)

\* LogicThread.run of the daemon of peer p: one message the receiver parsed
\* is taken off the queue.  What the thread puts on its network queue is
\* recorded without the send wrapper.
PeerLogicRun(p) ==
    /\ peer_running[p]
    /\ peer_head[p] < Len(wire_out[p])
    /\ peer_head' = [peer_head EXCEPT ![p] = @ + 1]
    /\ LET message == parse(wire_out[p][peer_head[p] + 1])
           dir == store[p]
       IN CASE message.type = "send_block" ->
                 \* a write that raises is logged and nothing else happens
                 /\ store' = [store EXCEPT ![p] =
                       IF <<message.name, message.number, message.block_type>>
                             \in unreadable[p]
                       THEN @ ELSE ClientSendBlock(@, message)]
                 /\ UNCHANGED <<peer_out, unreadable, peer_running>>
            [] message.type = "ask_block" ->
                 /\ \E order \in Orders(ClientGlob(dir, message)) :
                       peer_out' = [peer_out EXCEPT ![p] =
                          @ \o AskBlockAnswer(dir, order, unreadable[p], message.name)]
                 /\ UNCHANGED <<store, unreadable, peer_running>>
            [] message.type = "delete_block" ->
                 \E order \in Orders(ClientGlob(dir, message)) :
                 \E stuck \in SUBSET (Range(order) \cap unreadable[p]) :
                    LET removed == RemovedBefore(order, stuck)
                    IN /\ store' = [store EXCEPT ![p] = Without(@, removed)]
                       /\ unreadable' = [unreadable EXCEPT ![p] = @ \ removed]
                       \* os.remove raises out of the loop of the thread
                       /\ peer_running' = [peer_running EXCEPT ![p] = (stuck = {})]
                       /\ UNCHANGED peer_out
            [] message.type = "ask_disk_state" ->
                 /\ peer_out' = [peer_out EXCEPT ![p] =
                       Append(@, client_disk_state(DiskTotal, DiskFree))]
                 /\ UNCHANGED <<store, unreadable, peer_running>>
            [] message.type = "ask_storage_state" ->
                 /\ \E order \in Orders(DOMAIN dir) :
                       peer_out' = [peer_out EXCEPT ![p] =
                          Append(@, StorageStateAnswer(order))]
                 /\ UNCHANGED <<store, unreadable, peer_running>>
            [] message.type = "kill" ->
                 /\ peer_out' = [peer_out EXCEPT ![p] = Append(@, build(message))]
                 /\ peer_running' = [peer_running EXCEPT ![p] = FALSE]
                 /\ UNCHANGED <<store, unreadable>>
            [] OTHER -> UNCHANGED <<store, peer_out, unreadable, peer_running>>
    /\ UNCHANGED <<fs, dest, temp, logic_queue, logic_head, dist, rest, recon,
                   peer_up, pending, faults>>
    /\ UNCHANGED coordVars
    /\ UNCHANGED netVars

\* ---------------------------------------------------- the daemons at work
MaxAsks == 2
\* the block files a daemon may hold: f_0.data, f_g_0.data and g_0.metadata
PeerFiles ==
    {<<<<"f">>, 0, DATA_BLOCK>>, <<<<"f", "g">>, 0, DATA_BLOCK>>,
     <<<<"g">>, 0, METADATA_BLOCK>>}
PeerContent(k) == IF k[3] = DATA_BLOCK THEN encrypt(1, <<Len(k[1]) % 2>>)
                  ELSE encrypt_packed(1, build([value |-> k[2]]))

\* what the coordinator sends to a daemon
ServerMessages ==
    {ask_block(<<"f">>), ask_block(<<"g">>), ask_block(<<"h">>),
     delete_block(<<"f">>), send_block(DATA_BLOCK, <<"f">>, 0, encrypt(1, <<0>>)),
     ask_storage_state, ask_disk_state, server_kill}

\* the coordinator's logic thread puts a message for a peer, or for every
\* peer, on the sender queue
ServerSends(net_message, client) ==
    /\ Len(network_queue) < MaxAsks
    /\ network_queue' = Append(network_queue, send(net_message, client))
    /\ UNCHANGED <<fs, dest, temp, logic_queue, logic_head, dist, rest, recon, store,
                   peer_up, pending, faults>>
    /\ UNCHANGED <<clients, running_threads, db, gui_queue, next_ident>>
    /\ UNCHANGED netVars
    /\ UNCHANGED peerVars

\* every peer is connected; the daemons hold the same files, some of which
\* cannot be read
InitPeer ==
    /\ logic_queue = <<>>
    /\ peer_up = Peers
    /\ clients = SetToSeq(Peers)
    /\ \E held \in SUBSET PeerFiles :
          /\ store = [p \in Peers |-> [k \in held |-> PeerContent(k)]]
          /\ \E cannot \in SUBSET held : unreadable = [p \in Peers |-> cannot]
    /\ fs = EmptyMap
    /\ dest = EmptyMap
    /\ temp = EmptyMap
    /\ logic_head = 0
    /\ dist = EmptyMap
    /\ rest = EmptyMap
    /\ recon = [has_queue |-> FALSE, queue |-> <<>>, thread_id |-> 0]
    /\ pending = [p \in Peers |-> {}]
    /\ faults = 0
    /\ running_threads = EmptyMap
    /\ db = <<>>
    /\ gui_queue = <<>>
    /\ network_queue = <<>>
    /\ next_ident = 1
    /\ NetIdle
    /\ peer_head = [p \in Peers |-> 0]
    /\ peer_out = [p \in Peers |-> <<>>]
    /\ peer_running = [p \in Peers |-> TRUE]

NextPeer ==
    \/ \E net_message \in ServerMessages, client \in Peers \cup {Everyone} :
          ServerSends(net_message, client)
    \/ SenderRun
    \/ \E p \in Peers : PeerLogicRun(p)

SpecPeer == InitPeer /\ [][NextPeer]_vars

\* --------------------------------------------- two restores of one file
\* client/network.py, NetworkSenderThread.run, and the receiver of the
\* coordinator: the messages a daemon queued reach the coordinator's inbox
\* one by one, in the order they were queued
Delivered(p) ==
    Cardinality({i \in DOMAIN logic_queue :
                    logic_queue[i].type = "received" /\ logic_queue[i].client = p})
PeerDeliver(p) ==
    /\ p \in peer_up
    /\ Delivered(p) < Len(peer_out[p])
    /\ logic_queue' = Append(logic_queue,
                             received_event(peer_out[p][Delivered(p) + 1], p))
    /\ UNCHANGED <<fs, dest, temp, logic_head, dist, rest, recon, store, peer_up,
                   pending, faults>>
    /\ UNCHANGED coordVars
    /\ UNCHANGED netVars
    /\ UNCHANGED peerVars

\* Gui.download: the user saves a file of the file list; nothing keeps the
\* user from downloading a file that is being restored
GuiDownload(real_file, virtual_file) ==
    /\ Cardinality(Requests("restore")) < MaxRequests
    /\ real_file = IF Requests("restore") = {} THEN OutputPath ELSE OtherPath
    /\ logic_queue' = Append(logic_queue, restore(real_file, virtual_file))
    /\ UNCHANGED <<fs, dest, temp, logic_head, dist, rest, recon, store, peer_up,
                   pending, faults>>
    /\ UNCHANGED coordVars
    /\ UNCHANGED netVars
    /\ UNCHANGED peerVars

\* A file of one block was distributed with validation 2 to the one
\* connected peer, which holds the block; no metadata block was sent.
TwinFile == <<1>>
InitTwin ==
    /\ logic_queue = <<>>
    /\ \E P \in {1} :
          /\ peer_up = 1..P
          /\ clients = [i \in 1..P |-> i]
          /\ store = [p \in Peers |->
                        IF p <= P
                        THEN CopyData(p, [pm \in (1..P) \X (1..Len(TwinFile)) |-> <<TwinFile[pm[2]]>>],
                                      TwinFile)
                             @@ CopyMeta(p, "intact", TwinFile)
                        ELSE EmptyMap]
    /\ db = <<CopyRow(TwinFile)>>
    /\ fs = EmptyMap
    /\ dest = EmptyMap
    /\ temp = EmptyMap
    /\ logic_head = 0
    /\ dist = EmptyMap
    /\ rest = EmptyMap
    /\ recon = [has_queue |-> FALSE, queue |-> <<>>, thread_id |-> 0]
    /\ pending = [p \in Peers |-> {}]
    /\ faults = 0
    /\ running_threads = EmptyMap
    /\ gui_queue = <<>>
    /\ network_queue = <<>>
    /\ next_ident = 1
    /\ NetIdle
    /\ PeersIdle

NextTwin ==
    \/ do_loop
    \/ \E real_file \in {OutputPath, OtherPath} : GuiDownload(real_file, CopyName)
    \/ SenderRun
    \/ \E p \in Peers : PeerLogicRun(p)
    \/ \E p \in Peers : PeerDeliver(p)
    \/ \E id \in ThreadIds : RestoreReceive(id)
    \/ \E id \in ThreadIds : RestoreCollected(id)
    \/ \E id \in ThreadIds : RestoreProcess(id)

SpecTwin == InitTwin /\ [][NextTwin]_vars

\* ------------------------------------- restores of files with a common prefix
\* The files f and f_g, of two blocks each, were distributed with block size
\* 1 and validation 2 to the one connected peer.  The user downloads f_g, to
\* a directory that exists or to one that does not, and then f.
MixNames == {<<"f">>, <<"f", "g">>}
MixRow(name) == Record(RunningThread("distribute", name, 2, 2, 1, 2, CopyKey))
MixStore(name, file) ==
    [k \in {<<name, n, DATA_BLOCK>> : n \in 1..2} |-> encrypt(CopyKey, <<file[k[2]]>>)]
    @@ (<<name, 1, METADATA_BLOCK>> :> encrypt_packed(CopyKey, CopyMetadata(file)))
InitMix ==
    /\ \E real_file \in {OtherPath, MissingPath} :
          logic_queue = <<restore(real_file, <<"f", "g">>), restore(OutputPath, <<"f">>)>>
    /\ peer_up = {1}
    /\ clients = <<1>>
    /\ db = <<MixRow(<<"f">>), MixRow(<<"f", "g">>)>>
    /\ \E file \in [MixNames -> [1..2 -> Byte]] :
          store = [p \in Peers |->
                     IF p = 1
                     THEN MixStore(<<"f">>, file[<<"f">>])
                          @@ MixStore(<<"f", "g">>, file[<<"f", "g">>])
                     ELSE EmptyMap]
    /\ fs = EmptyMap
    /\ dest = EmptyMap
    /\ temp = EmptyMap
    /\ logic_head = 0
    /\ dist = EmptyMap
    /\ rest = EmptyMap
    /\ recon = [has_queue |-> FALSE, queue |-> <<>>, thread_id |-> 0]
    /\ pending = [p \in Peers |-> {}]
    /\ faults = 0
    /\ running_threads = EmptyMap
    /\ gui_queue = <<>>
    /\ network_queue = <<>>
    /\ next_ident = 1
    /\ NetIdle
    /\ PeersIdle

NextMix ==
    \/ do_loop
    \/ \E id \in ThreadIds : RestoreCollectAll(id)
    \/ \E id \in ThreadIds : RestoreProcess(id)

SpecMix == InitMix /\ [][NextMix]_vars

\* Every thread that can take a step is scheduled: the run of Spec goes on
\* as long as some step is possible.
SpecLive == Init /\ [][Next]_vars /\ WF_vars(Next)

\* ------------------------------------------------ peers that come and go
\* The coordinator and the two network threads of a server that starts with
\* no peer: peers connect, go away and connect again, also before the
\* receiver has read the end of the connection that went before (the new
\* socket then takes the place of the old one under the address).
MaxAccepts == 2
ReceiverAcceptAgain(p) ==
    /\ receiver_running
    /\ p \notin peer_up
    /\ Cardinality({i \in DOMAIN network_queue :
                       network_queue[i].type = "new_socket"}) < MaxAccepts
    /\ peer_up' = peer_up \cup {p}
    /\ recv_sockets' = recv_sockets \cup {p}
    /\ network_queue' = Append(network_queue, new_socket(p))
    /\ UNCHANGED <<fs, dest, temp, logic_queue, logic_head, dist, rest, recon, store,
                   pending, faults>>
    /\ UNCHANGED <<clients, running_threads, db, gui_queue, next_ident>>
    /\ UNCHANGED <<sockets, network_head, sender_running, wire_out, messages,
                   inbound, frames, receiver_running>>
    /\ UNCHANGED peerVars

NextConn ==
    \/ do_loop
    \/ SenderRun
    \/ \E p \in Peers : ReceiverAcceptAgain(p)
    \/ \E p \in Peers : PeerClose(p)
    \/ \E p \in Peers : ReceiverRead(p, 0)

SpecConn == InitNet /\ [][NextConn]_vars

\* ------------------------------------------------------------- properties
\* the send_block messages of one type the distribute thread has put, in order
SentBlocks(block_type) ==
    SelectSeq(logic_queue,
              LAMBDA m : m.type = "send" /\ parse(m.message).block_type = block_type)
\* the message m has been put on the logic queue
Put(m) ==
    \E i \in DOMAIN logic_queue : logic_queue[i].type = m.type /\ logic_queue[i] = m
\* the distributed file, its parameters and its blocks
SourceFile == fs[InputPath]
Task == dist[DistId]
PeerCount == Len(Task.clients)
SourceBlockNumber == BlockNumber(Len(SourceFile), Task.block_size)
SourceBlock(n) ==
    SubSeq(SourceFile, (n - 1) * Task.block_size + 1,
           Min(n * Task.block_size, Len(SourceFile)))
DistributeCompleted ==
    DistId \in DOMAIN dist /\ Task.pc = "exited" /\ Put(thread_exit(DistId, TRUE))
RestoreEnded == RestId \in DOMAIN rest /\ rest[RestId].pc \in {"exited", "crashed"}
RestoreSucceeded == Put(thread_exit(RestId, TRUE))

\* C1: a distribute that ran to completion over at least one peer, followed
\* by a restore with every peer connected and every stored block unmodified,
\* ends with thread_exit success=true and a destination equal to the file.
C1_RoundTrip ==
    (RestoreEnded /\ PeerCount >= 1 /\ faults = 0)
        => /\ rest[RestId].pc = "exited"
           /\ RestoreSucceeded
           /\ ~Put(thread_exit(RestId, FALSE))
           /\ OutputPath \in DOMAIN dest
           /\ dest[OutputPath] = SourceFile
           /\ dest[OutputPath] = Concat([n \in 1..SourceBlockNumber |-> SourceBlock(n)])

\* a restore of a file of three blocks, the last one shorter, has ended
C1_Witness ==
    /\ RestoreEnded /\ faults = 0
    /\ PeerCount = 2
    /\ Len(SourceFile) = 3 /\ Task.block_size = 2
    /\ OutputPath \in DOMAIN dest

\* C6: a completed distribute has sent block_number * D DATA blocks and
\* ceil(block_number / V) METADATA blocks.
C6_MessageCounts ==
    (DistributeCompleted /\ PeerCount >= 1)
        => /\ Len(SentBlocks(DATA_BLOCK)) = SourceBlockNumber * Task.duplication_level
           /\ Len(SentBlocks(METADATA_BLOCK))
                 = CeilDiv(SourceBlockNumber, Task.validation_level)

\* C7: the METADATA block of group g is sent to peers[(g-1) mod P].
C7_MetadataCursor ==
    LET sent == SentBlocks(METADATA_BLOCK)
    IN \A i \in 1..Len(sent) :
          sent[i].client = Task.clients[((parse(sent[i].message).number - 1) % PeerCount) + 1]

\* C8: the k-th DATA message (k counted from 0) is duplicate k mod D of
\* block k div D + 1 and is sent to peers[k mod P].
C8_DataCursor ==
    LET sent == SentBlocks(DATA_BLOCK)
    IN \A k \in 1..Len(sent) :
          /\ parse(sent[k].message).number = ((k - 1) \div Task.duplication_level) + 1
          /\ sent[k].client = Task.clients[((k - 1) % PeerCount) + 1]

\* three blocks without duplicates went to two peers: the pointer wrapped
C8_Witness ==
    /\ DistributeCompleted
    /\ PeerCount = 2 /\ Task.duplication_level = 1
    /\ Len(SentBlocks(DATA_BLOCK)) = 3
    /\ SentBlocks(DATA_BLOCK)[3].client = Task.clients[1]

\* what the peers hold of the distributed file when the restore runs
GroupOf(n) == ((n - 1) \div Task.validation_level) + 1
Groups == 1..CeilDiv(SourceBlockNumber, Task.validation_level)
Group(g) == {n \in 1..SourceBlockNumber : GroupOf(n) = g}
DataKey(n) == <<Basename(Task.file_path), n, DATA_BLOCK>>
MetadataKey(g) == <<Basename(Task.file_path), g, METADATA_BLOCK>>
\* some peer holds a copy of DATA block n
SomeCopy(n) == \E p \in Peers : DataKey(n) \in DOMAIN store[p]
\* some peer holds a copy of DATA block n that is as it was sent
UntouchedCopy(n) ==
    \E p \in Peers : /\ DataKey(n) \in DOMAIN store[p]
                     /\ store[p][DataKey(n)] = encrypt(Task.key, SourceBlock(n))
\* some peer holds the METADATA block of group g, and it still decompresses
MetadataReturned(g) ==
    \E p \in Peers : /\ MetadataKey(g) \in DOMAIN store[p]
                     /\ store[p][MetadataKey(g)].ok
\* nothing a peer holds has been modified
NothingModified ==
    \A p \in Peers : \A k \in DOMAIN store[p] :
        IF k[3] = DATA_BLOCK THEN store[p][k] = encrypt(Task.key, SourceBlock(k[2]))
        ELSE store[p][k].ok
RestoreFailed ==
    /\ rest[RestId].pc = "exited"
    /\ \E i \in DOMAIN logic_queue : /\ logic_queue[i].type = "error"
                                     /\ logic_queue[i].thread_id = RestId
    /\ Put(thread_exit(RestId, FALSE))
    /\ ~RestoreSucceeded
    /\ OutputPath \notin DOMAIN dest

\* C2: when every parity group has exactly one DATA block number without a
\* copy on any peer, and the METADATA block of the group is returned, restore
\* succeeds with the bytes of the file, whichever block is the missing one.
C2_SingleLoss ==
    (/\ RestoreEnded
     /\ Groups # {}
     /\ NothingModified
     /\ \A g \in Groups : /\ Cardinality({n \in Group(g) : ~SomeCopy(n)}) = 1
                          /\ MetadataReturned(g))
        => /\ RestoreSucceeded
           /\ OutputPath \in DOMAIN dest
           /\ dest[OutputPath] = SourceFile

\* C3, as stated: two or more block numbers of a group without an unmodified
\* copy make the restore fail, whether or not the metadata is present.
C3_NoValidCopy ==
    (/\ RestoreEnded
     /\ \E g \in Groups : Cardinality({n \in Group(g) : ~UntouchedCopy(n)}) >= 2)
        => RestoreFailed

\* a copy of block n that restore accepts reaches it: a copy whose hash the
\* usable metadata of the group confirms, any copy when there is none
AcceptedCopy(n) ==
    IF MetadataReturned(GroupOf(n)) THEN UntouchedCopy(n) ELSE SomeCopy(n)

\* C3, amended: two or more block numbers of a group without a copy that
\* restore accepts make the restore put an error, exit with success=false
\* and leave the destination unwritten.
C3_NoAcceptedCopy ==
    (/\ RestoreEnded
     /\ \E g \in Groups : Cardinality({n \in Group(g) : ~AcceptedCopy(n)}) >= 2)
        => RestoreFailed

\* both blocks of a group were lost, its metadata is there, the restore failed
C3_Witness ==
    /\ RestoreEnded
    /\ \E g \in Groups : /\ MetadataReturned(g)
                         /\ Cardinality({n \in Group(g) : ~SomeCopy(n)}) = 2
    /\ RestoreFailed

\* C4: every block in valid_blocks whose group has usable metadata has the
\* SHA-256 the metadata lists for it; the metadata of a group is used
\* whenever it is returned and decompresses; a corrupted copy is not chosen
\* when an untouched duplicate exists and the metadata is usable.
C4_HashValidated ==
    (RestId \in DOMAIN rest /\ rest[RestId].pc = "exited")
        => LET t == rest[RestId]
           IN \A n \in DOMAIN t.valid_blocks :
                 /\ MetadataReturned(GroupOf(n)) <=> GroupOf(n) \in DOMAIN t.mapping
                 /\ GroupOf(n) \in DOMAIN t.mapping
                       => /\ n \in DOMAIN t.mapping[GroupOf(n)].hashes
                          /\ hash_string(t.valid_blocks[n])
                                = t.mapping[GroupOf(n)].hashes[n]
                 /\ (MetadataReturned(GroupOf(n)) /\ UntouchedCopy(n))
                       => t.valid_blocks[n] = SourceBlock(n)

\* a block with one corrupted and one untouched copy was validated against
\* usable metadata, and the restore succeeded
C4_Witness ==
    /\ RestoreEnded /\ RestoreSucceeded
    /\ \E n \in 1..SourceBlockNumber :
          /\ MetadataReturned(GroupOf(n))
          /\ UntouchedCopy(n)
          /\ \E p \in Peers : /\ DataKey(n) \in DOMAIN store[p]
                              /\ store[p][DataKey(n)] # encrypt(Task.key, SourceBlock(n))
          /\ n \in DOMAIN rest[RestId].valid_blocks
          /\ rest[RestId].valid_blocks[n] = SourceBlock(n)

\* C5: the metadata store holds at most one row per file name, and of two
\* distribute requests for one base name at most one ends with a record
\* inserted.
C5_UniqueNames ==
    /\ \A i, j \in DOMAIN db : db[i].name = db[j].name => i = j
    /\ \A name \in {Basename(path) : path \in DOMAIN fs} :
          Len(QueryRows(db, name)) <= 1

\* an unread exit message waits on the queue of the thread
ExitWaiting(thread) ==
    \E i \in DOMAIN thread.queue : thread.queue[i] = exit
\* the step ends the thread with the messages put
Emits(emitted) == logic_queue' = logic_queue \o emitted

\* C9: a distribute or restore task that has an EXIT on its inbox and has
\* not emitted thread_exit emits thread_exit with success=false when it
\* ends, never with success=true, and a restore leaves none of its blocks in
\* the temp directory.
C9_ExitHonoured ==
    [][\A id \in ThreadIds :
          /\ (/\ id \in DOMAIN dist
              /\ dist[id].pc \notin {"exited", "crashed"}
              /\ ExitWaiting(dist[id])
              /\ dist'[id].pc = "exited")
                => Emits(<<thread_exit(id, FALSE)>>)
          /\ (/\ id \in DOMAIN rest
              /\ rest[id].pc \notin {"exited", "crashed"}
              /\ ExitWaiting(rest[id])
              /\ rest'[id].pc = "exited")
                => /\ Emits(<<thread_exit(id, FALSE)>>)
                   /\ \A k \in DOMAIN temp' : k[2] # rest[id].virtual_file]_vars

\* the registered distribute threads
DistributeThreads ==
    {id \in DOMAIN running_threads : running_threads[id].thread_type = "distribute"}

\* C10: when the coordinator processes disconnected while distribute tasks
\* are registered, every one of them gets an EXIT on its inbox, an error
\* and the updated client list are put on the gui queue.
C10_Disconnected ==
    [][(/\ logic_head < Len(logic_queue)
        /\ logic_head' = logic_head + 1
        /\ logic_queue[logic_head + 1].type = "disconnected"
        /\ DistributeThreads # {})
          => /\ \A id \in DistributeThreads :
                   dist'[id].queue = Append(dist[id].queue, exit)
             /\ \E i \in (Len(gui_queue) + 1)..Len(gui_queue') :
                   gui_queue'[i].type = "error"
             /\ \E i \in (Len(gui_queue) + 1)..Len(gui_queue') :
                   /\ gui_queue'[i].type = "client_list"
                   /\ gui_queue'[i].clients = clients']_vars

\* a client the distribute task was created with has since been removed
\* from the client list: its disconnected was processed while the task ran
LostClient(id) ==
    \E i \in DOMAIN dist[id].clients : dist[id].clients[i] \notin Range(clients)
\* the step puts a delete_block of the name for every client on the sender queue
SendsDeleteBlock(name) ==
    \E i \in (Len(network_queue) + 1)..Len(network_queue') :
        /\ network_queue'[i].client = Everyone
        /\ parse(network_queue'[i].message).type = "delete_block"
        /\ parse(network_queue'[i].message).name = name

\* C11: when a peer has disconnected while a distribute task was running,
\* the step that takes the task off the task table inserts no record of the
\* file of the task and sends a delete_block of its name to the peers.
C11_PeerLoss ==
    [][\A id \in DistributeThreads :
          (LostClient(id) /\ id \notin DOMAIN running_threads')
            => /\ Len(QueryRows(db', running_threads[id].name))
                    <= Len(QueryRows(db, running_threads[id].name))
               /\ SendsDeleteBlock(running_threads[id].name)]_vars

\* the coordinator takes a message of the type off its queue in this step
Processing(type) ==
    /\ logic_head < Len(logic_queue)
    /\ logic_head' = logic_head + 1
    /\ logic_queue[logic_head + 1].type = type
\* the message the coordinator takes off its queue in this step
Taken == logic_queue[logic_head + 1]

\* C12: a row is added to the files table only by the step that processes
\* thread_exit with success=true of a registered distribute task, and the
\* row is the name, file_size, block_number, duplication, validation and key
\* registered for the task; thread_exit with success=false and thread_exit
\* of a restore task add no row; the entry of the task is removed from the
\* task table in every case.
C12_Insertion ==
    [][/\ Len(db') > Len(db)
            => /\ Processing("thread_exit")
               /\ Taken.success
               /\ Taken.thread_id \in DistributeThreads
               /\ db' = Append(db, [name |-> running_threads[Taken.thread_id].name,
                        file_size |-> running_threads[Taken.thread_id].file_size,
                        block_number |-> running_threads[Taken.thread_id].block_number,
                        duplication |-> running_threads[Taken.thread_id].duplication,
                        validation |-> running_threads[Taken.thread_id].validation,
                        key |-> running_threads[Taken.thread_id].key])
       /\ (Processing("thread_exit") /\ Taken.thread_id \in DOMAIN running_threads)
            => /\ Taken.thread_id \notin DOMAIN running_threads'
               /\ DOMAIN running_threads' = DOMAIN running_threads \ {Taken.thread_id}
               /\ (~Taken.success
                   \/ running_threads[Taken.thread_id].thread_type = "restore")
                     => Len(db') <= Len(db)]_vars
\* a distribute task has ended with its record inserted, and a restore task
\* of the file has ended and been taken off the task table without a second row
C12_Witness ==
    /\ Len(db) = 1
    /\ running_threads = EmptyMap
    /\ logic_head = Len(logic_queue)
    /\ \E i \in DOMAIN logic_queue :
          /\ logic_queue[i].type = "thread_exit"
          /\ logic_queue[i].thread_id = RestId
    /\ \E i \in DOMAIN logic_queue :
          /\ logic_queue[i].type = "thread_exit"
          /\ logic_queue[i].thread_id = DistId
          /\ logic_queue[i].success

\* the distribute task took EXIT off its inbox and ended
Cancelled(id) ==
    /\ id \in DOMAIN dist
    /\ dist[id].pc = "exited"
    /\ Put(thread_exit(id, FALSE))
\* every task has ended, the coordinator has handled every message put so
\* far, and every message it passed to the sender has reached the peers
Drained ==
    /\ logic_head = Len(logic_queue)
    /\ \A id \in DOMAIN dist : dist[id].pc \in {"exited", "crashed"}
\* the blocks of the name a connected peer stores
StoredBlocks(name) ==
    {<<p, k>> \in UNION {{p} \X DOMAIN store[p] : p \in peer_up} : k[1] = name}

\* C13: once a distribute task has ended on an EXIT, every task has ended
\* and the queues have drained, no connected peer stores a block of the
\* name of its file.
C13_CancelledLeavesNothing ==
    \A id \in ThreadIds :
        (Cancelled(id) /\ Drained) => StoredBlocks(Basename(dist[id].file_path)) = {}

\* C14: a distribute task whose input path does not exist ends having put
\* an error and then a thread_exit with success=false on the coordinator
\* queue, and nothing else.
C14_MissingFile ==
    \A id \in DOMAIN dist :
        (dist[id].file_path \notin DOMAIN fs /\ dist[id].pc = "exited")
          => \E i \in DOMAIN logic_queue :
                /\ logic_queue[i].type = "error"
                /\ logic_queue[i].thread_id = id
                /\ i < Len(logic_queue)
                /\ logic_queue[i + 1] = thread_exit(id, FALSE)

\* the step puts a message of the type on the gui queue
GuiGets(type) ==
    \E i \in (Len(gui_queue) + 1)..Len(gui_queue') : gui_queue'[i].type = type

\* C15: the step that processes a restore request of a file without a row
\* in the files table puts an error on the gui queue, creates no restore
\* thread, adds nothing to the task table and sends no ask_block.
C15_NoRecord ==
    [][(Processing("restore") /\ QueryRows(db, Taken.virtual_file) = <<>>)
          => /\ GuiGets("error")
             /\ rest' = rest
             /\ running_threads' = running_threads
             /\ network_queue' = network_queue]_vars

\* the frame the coordinator takes off its queue decodes to a block or a
\* file_sent
ForwardedFrame ==
    /\ Processing("received")
    /\ Taken.message.ok
    /\ "type" \in DOMAIN Taken.message.obj
    /\ Taken.message.obj.type \in {"block", "file_sent"}
\* the registered restore threads of a file name
RestoreThreadsOf(name) ==
    {id \in DOMAIN running_threads :
        /\ running_threads[id].thread_type = "restore"
        /\ running_threads[id].name = name}
\* the message is the payload with the address of the sender
Tagged(message, payload, client) ==
    /\ message.client = client
    /\ \A k \in DOMAIN payload : message[k] = payload[k]
    /\ DOMAIN message = DOMAIN payload \cup {"client"}

\* C16: the step that processes a received block or file_sent of name n
\* appends the message, with the address of the sending peer, to the inbox
\* of every registered restore task of the file n, leaves every other inbox
\* as it is, and changes neither the task table nor the client list.
C16_Forwarded ==
    [][ForwardedFrame
          => /\ \A id \in DOMAIN rest :
                  IF id \in RestoreThreadsOf(Taken.message.obj.name)
                  THEN /\ Len(rest'[id].queue) = Len(rest[id].queue) + 1
                       /\ SubSeq(rest'[id].queue, 1, Len(rest[id].queue)) = rest[id].queue
                       /\ Tagged(rest'[id].queue[Len(rest'[id].queue)],
                                 Taken.message.obj, Taken.client)
                  ELSE rest'[id].queue = rest[id].queue
             /\ \A id \in DOMAIN dist : dist'[id].queue = dist[id].queue
             /\ running_threads' = running_threads
             /\ clients' = clients]_vars
\* restore tasks of two files and a distribute task are registered; a block
\* of one of the files is on the inbox of its restore task only
C16_Witness ==
    \E a, b \in DOMAIN rest :
        /\ a \in RestoreThreadsOf(<<"g">>)
        /\ b \in RestoreThreadsOf(<<"h">>)
        /\ DistributeThreads # {}
        /\ \E i \in DOMAIN rest[a].queue :
              /\ rest[a].queue[i].type = "block"
              /\ rest[a].queue[i].name = <<"g">>
              /\ rest[a].queue[i].client \in peer_up
        /\ rest[b].queue = <<>>
        /\ \A id \in DOMAIN dist : dist[id].queue = <<>>

\* the frame the coordinator takes off its queue does not decompress or
\* does not decode to a map
MalformedFrame ==
    /\ Processing("received")
    /\ (~Taken.message.ok \/ "value" \in DOMAIN Taken.message.obj)

\* C17: the step that processes a malformed frame changes nothing but the
\* read position of the coordinator: the client list, the task table, the
\* files table, every inbox and the queues of the gui and of the sender are
\* as before.
C17_Dropped ==
    [][MalformedFrame
          => /\ logic_head' = logic_head + 1
             /\ UNCHANGED <<clients, running_threads, db, dist, rest, recon,
                            gui_queue, network_queue, logic_queue, store, temp>>]_vars
\* a malformed frame has been dropped while a restore task of the file it
\* names was waiting, and the coordinator has gone on to the next message
C17_Witness ==
    \E i \in DOMAIN logic_queue :
        /\ logic_queue[i].type = "received"
        /\ ~logic_queue[i].message.ok
        /\ i < logic_head
        /\ \E id \in RestoreThreadsOf(logic_queue[i].message.obj.name) :
              rest[id].queue = <<>> /\ rest[id].pc = "collect"

\* a is b with some of its elements left out, the others in their order
RECURSIVE IsSubsequence(_, _)
IsSubsequence(a, b) ==
    IF a = <<>> THEN TRUE
    ELSE IF b = <<>> THEN FALSE
    ELSE IF Head(a) = Head(b) THEN IsSubsequence(Tail(a), Tail(b))
    ELSE IsSubsequence(a, Tail(b))
\* the messages submitted for the peer, alone or with everyone, in the
\* order they were put on the sender queue
SubmittedFor(p) ==
    LET mine == SelectSeq(network_queue,
                    LAMBDA m : m.type = "send" /\ m.client \in {p, Everyone})
    IN [i \in 1..Len(mine) |-> mine[i].message]

\* C18: what has been written to the socket of a peer is, in this order,
\* part of what was submitted for the peer: no message is written before
\* one submitted earlier, and none is written twice.
C18_SubmitOrder ==
    \A p \in Peers : IsSubsequence(wire_out[p], SubmittedFor(p))
\* a peer has been written a message sent to it alone and a broadcast, with
\* the disconnected of another peer taken off the queue in between
C18_Witness ==
    \E p \in Peers :
        /\ Len(wire_out[p]) >= 2
        /\ \E i, j, k \in 1..network_head :
              /\ i < k /\ k < j
              /\ network_queue[i].type = "send" /\ network_queue[i].client = p
              /\ network_queue[j].type = "send" /\ network_queue[j].client = Everyone
              /\ network_queue[k].type = "disconnected"
              /\ \E a, b \in DOMAIN wire_out[p] :
                    /\ a < b
                    /\ wire_out[p][a] = network_queue[i].message
                    /\ wire_out[p][b] = network_queue[j].message

\* the published payloads of the frames of a peer, in order
Published(p) ==
    LET mine == SelectSeq(logic_queue,
                    LAMBDA m : m.type = "received" /\ m.client = p)
    IN [i \in 1..Len(mine) |-> mine[i].message]
\* a is the beginning of b
IsBeginning(a, b) == Len(a) <= Len(b) /\ SubSeq(b, 1, Len(a)) = a

\* C19: however the bytes of a peer are split over the reads, the receiver
\* keeps running, publishes the payloads of the frames the peer has sent,
\* whole and in their order, and reports no connected peer as disconnected.
C19_Framing ==
    /\ receiver_running
    /\ \A p \in Peers :
          /\ IsBeginning(Published(p), frames[p])
          /\ p \in peer_up => p \in recv_sockets

\* the sender takes a message of the type off its queue in this step
SenderTakes(type) ==
    /\ network_head < Len(network_queue)
    /\ network_head' = network_head + 1
    /\ network_queue[network_head + 1].type = type

\* C20: a step of the sender in which a send fails (the sender reports the
\* peer and drops its socket) leaves the sender running, and every other
\* socket of a broadcast has the message written; a disconnected taken off
\* the queue for a peer the sender has dropped already leaves it running.
C20_SendFailure ==
    [][/\ (SenderTakes("send") /\ sockets' # sockets)
            => /\ sender_running'
               /\ network_queue[network_head + 1].client = Everyone
                    => \A q \in sockets' :
                          wire_out'[q] = Append(wire_out[q],
                                                network_queue[network_head + 1].message)
       /\ (SenderTakes("disconnected") /\ sender_running)
            => sender_running']_vars

\* the thread_exit messages a task has put on the coordinator inbox
ExitsOf(id) ==
    {i \in DOMAIN logic_queue :
        logic_queue[i].type = "thread_exit" /\ logic_queue[i].thread_id = id}

\* C21: a restore task that has left the collection phase and is no longer
\* processing has put exactly one thread_exit on the coordinator inbox: an
\* unexpected error while it validates, repairs or assembles (here: the
\* destination cannot be opened) ends it like a corrupted file, with an
\* error event and thread_exit{success=false}.
C21_ErrorReported ==
    \A id \in DOMAIN rest :
        rest[id].pc \notin {"collect", "process"} =>
            /\ Cardinality(ExitsOf(id)) = 1
            /\ (~CanOpen(rest[id].real_file) =>
                   /\ \A i \in ExitsOf(id) : ~logic_queue[i].success
                   /\ \E i \in DOMAIN logic_queue :
                         logic_queue[i].type = "error" /\ logic_queue[i].thread_id = id)

\* the step in which a restore task that has staged no block of its file
\* ends its processing
EndsEmpty(id) ==
    /\ id \in DOMAIN rest
    /\ rest[id].pc = "process"
    /\ rest'[id].pc # "process"
    /\ GetBlocksNames(temp, rest[id].virtual_file) = {}
\* the step puts an error event and thread_exit{success=false} on the inbox
ReportsFailure(id) ==
    /\ Len(logic_queue') = Len(logic_queue) + 2
    /\ logic_queue'[Len(logic_queue) + 1].type = "error"
    /\ logic_queue'[Len(logic_queue) + 1].thread_id = id
    /\ logic_queue'[Len(logic_queue) + 2] = thread_exit(id, FALSE)

\* C22 as stated: a restore task that was started with no peer, or that has
\* received no block when its collection ends, exits with an error event
\* and thread_exit{success=false}, whatever the record of the file.
C22_NothingReceived ==
    [][\A id \in ThreadIds : EndsEmpty(id) => ReportsFailure(id)]_vars

\* C22, for the records of files that have blocks: a restore task of a file
\* of one or more blocks that was started with no peer, or that has
\* received no block when its collection ends, exits with an error event
\* and thread_exit{success=false}.
C22_NothingReceivedOfBlocks ==
    [][\A id \in ThreadIds :
          (EndsEmpty(id) /\ rest[id].block_number >= 1) => ReportsFailure(id)]_vars

\* a restore task of a file with blocks that was started with no peer has
\* exited; so has one whose peers all answered without a block
C22_Witness ==
    \E id \in DOMAIN rest :
        /\ rest[id].pc = "exited"
        /\ rest[id].block_number >= 1
        /\ DOMAIN rest[id].clients = {}
        /\ thread_exit(id, FALSE) \in Range(logic_queue)

\* C23: the distribute of an empty file puts no DATA and no METADATA block
\* on the coordinator inbox and ends with thread_exit{success=true}; the
\* restore of the file that follows ends with thread_exit{success=true} and
\* an empty destination file.
C23_EmptyFile ==
    SourceFile = <<>> =>
        /\ SentBlocks(DATA_BLOCK) = <<>>
        /\ SentBlocks(METADATA_BLOCK) = <<>>
        /\ (DistId \in DOMAIN dist /\ Task.pc \in {"exited", "crashed"})
              => /\ Task.pc = "exited"
                 /\ Put(thread_exit(DistId, TRUE))
                 /\ ~Put(thread_exit(DistId, FALSE))
        /\ RestoreEnded
              => /\ rest[RestId].pc = "exited"
                 /\ rest[RestId].block_number = 0
                 /\ RestoreSucceeded
                 /\ ~Put(thread_exit(RestId, FALSE))
                 /\ OutputPath \in DOMAIN dest
                 /\ dest[OutputPath] = <<>>

\* an empty file was distributed to two peers and restored
C23_Witness ==
    /\ SourceFile = <<>>
    /\ DistributeCompleted
    /\ PeerCount = 2
    /\ RestoreEnded
    /\ RestoreSucceeded
    /\ dest[OutputPath] = <<>>

\* the peers that hold a copy of DATA block n
Holders(n) == {p \in Peers : DataKey(n) \in DOMAIN store[p]}

\* C24: once the record of a distribute that reported success is inserted,
\* every DATA block 1..block_number is held by at least duplication_level
\* peers and the METADATA block of every group 1..ceil(block_number / V) is
\* held by a peer.
C24_CopiesStored ==
    (DistributeCompleted /\ db # <<>> /\ rest = EmptyMap)
        => /\ \A n \in 1..SourceBlockNumber :
                 Cardinality(Holders(n)) >= Task.duplication_level
           /\ \A g \in Groups : \E p \in Peers : MetadataKey(g) \in DOMAIN store[p]

\* the candidates of DATA block n of a restore task: the peers of the task
\* that hold a copy, what a copy decrypts to, and how often a content occurs
Candidates(id, n) ==
    {p \in DOMAIN rest[id].clients :
        <<rest[id].virtual_file, n, DATA_BLOCK>> \in DOMAIN store[p]}
CandidateContent(id, n, p) ==
    decrypt(rest[id].key, store[p][<<rest[id].virtual_file, n, DATA_BLOCK>>])
Frequency(id, n, content) ==
    Cardinality({p \in Candidates(id, n) : CandidateContent(id, n, p) = content})
Unvalidated(id, n) ==
    ((n - 1) \div rest[id].validation_level) + 1 \notin DOMAIN rest[id].mapping

\* C25: a restore task that has exited took, for every DATA block of a
\* group whose metadata is missing or malformed, a candidate whose content
\* is the most frequent one among the candidates of the block; a block with
\* no candidate is not among its valid blocks.
C25_MajorityVote ==
    \A id \in DOMAIN rest :
        rest[id].pc = "exited" =>
            \A n \in 1..rest[id].block_number :
                Unvalidated(id, n) =>
                    IF Candidates(id, n) = {}
                    THEN n \notin DOMAIN rest[id].valid_blocks
                    ELSE /\ n \in DOMAIN rest[id].valid_blocks
                         /\ \A p \in Candidates(id, n) :
                               Frequency(id, n, rest[id].valid_blocks[n])
                                  >= Frequency(id, n, CandidateContent(id, n, p))

\* the files under the temp directory that are blocks of the file name:
\* staged copies temp/<client>/<name>_<n>.<type> and rebuilt blocks
\* temp/<name>_<n>.data
TempBlocks(name) == {k \in DOMAIN temp : k[2] = name}

\* C26: when a restore task has exited, no block of its file is left under
\* the temp directory, neither a staged copy of a peer nor a rebuilt block.
C26_TempCleared ==
    \A id \in DOMAIN rest :
        rest[id].pc = "exited" => TempBlocks(rest[id].virtual_file) = {}

\* the sender has taken an exit message off its queue
ExitTaken == \E i \in 1..network_head : network_queue[i].type = "exit"

\* C30: until an exit message is processed the sender and the receiver of
\* the peer sessions are in their loops, whatever was put on their queues:
\* a send to a peer whose socket the sender no longer has, a broadcast that
\* fails, a disconnected for a peer that is already gone.
C30_WorkersSurvive ==
    ~ExitTaken => (sender_running /\ receiver_running)

\* the coordinator has processed a reconstruct request
ReconstructProcessed ==
    \E i \in 1..logic_head : logic_queue[i].type = "reconstruct"
\* a message of the type has been put on the queue of the window
GuiHas(type) == \E i \in DOMAIN gui_queue : gui_queue[i].type = type

\* C27: once a reconstruct request is processed, and until release_gui is
\* sent, the id of the reconstruct task is recorded, lock_gui has been sent
\* and the buttons of the window are disabled, whatever else the window
\* was sent since; release_gui is sent only after lock_gui.
C27_GuiLocked ==
    /\ (ReconstructProcessed /\ ~GuiHas("release_gui"))
          => /\ recon.thread_id # 0
             /\ GuiHas("lock_gui")
             /\ ~ControlButtons(TRUE, gui_queue)
    /\ GuiHas("release_gui") => GuiHas("lock_gui")

\* no message is waiting on the coordinator inbox and no restore task runs
Quiet ==
    /\ logic_head = Len(logic_queue)
    /\ \A id \in DOMAIN rest : rest[id].pc \in {"exited", "crashed"}

PeerNext(p) == parse(wire_out[p][peer_head[p] + 1])
PeerAdded(p) == SubSeq(peer_out'[p], Len(peer_out[p]) + 1, Len(peer_out'[p]))
\* C29: a daemon that processes an ask_block queues one block message for
\* every matching block file it could read, with the bytes of the file, and
\* after them exactly one file_sent of the name asked for, which is the last
\* message of the request; also when nothing matches or a file is unreadable.
C29_AskBlockAnswered ==
    [][\A p \in Peers :
          (/\ peer_head'[p] = peer_head[p] + 1
           /\ PeerNext(p).type = "ask_block")
          => LET added == PeerAdded(p)
                 wanted == ClientGlob(store[p], PeerNext(p)) \ unreadable[p]
                 blocks == SubSeq(added, 1, Len(added) - 1)
             IN /\ Len(peer_out'[p]) > Len(peer_out[p])
                /\ SubSeq(peer_out'[p], 1, Len(peer_out[p])) = peer_out[p]
                /\ added[Len(added)] = file_sent(PeerNext(p).name)
                /\ Len(blocks) = Cardinality(wanted)
                /\ \A k \in wanted :
                      \E i \in 1..Len(blocks) :
                         blocks[i] = block(k[3], k[1], k[2], store[p][k])]_vars
\* a daemon has answered an ask_block of f while one matching file was
\* unreadable and another was read, and an ask_block that matched nothing
C29_Witness ==
    \E p \in Peers :
        /\ peer_head[p] = 2
        /\ <<<<"f">>, 0, DATA_BLOCK>> \in unreadable[p]
        /\ <<<<"f", "g">>, 0, DATA_BLOCK>> \in DOMAIN store[p] \ unreadable[p]
        /\ peer_out[p] = <<block(DATA_BLOCK, <<"f", "g">>, 0,
                                 store[p][<<<<"f", "g">>, 0, DATA_BLOCK>>]),
                           file_sent(<<"f">>), file_sent(<<"h">>)>>

\* the position in the inbox of the request that started restore thread j
\* (the threads of SpecTwin are started in the order of the requests)
StartedAt(j) == SortedSeq(Requests("restore"))[j]
\* the frames the coordinator has put on the inbox of thread j, in order,
\* and the ones thread j has taken off it
ForwardedTo(j) ==
    SelectSeq(SubSeq(logic_queue, StartedAt(j) + 1, logic_head),
              LAMBDA e : e.type = "received")
TakenBy(j) == SubSeq(ForwardedTo(j), 1, Len(ForwardedTo(j)) - Len(rest[j].queue))
\* the staged files thread j has written itself
StagedBy(j) ==
    {<<TakenBy(j)[i].client, parse(TakenBy(j)[i].message).name,
       parse(TakenBy(j)[i].message).number, parse(TakenBy(j)[i].message).block_type>> :
        i \in {n \in DOMAIN TakenBy(j) : parse(TakenBy(j)[n].message).type = "block"}}
Collecting(j) == j \in DOMAIN rest /\ rest[j].pc \in {"collect", "process"}
\* C31: the exit of a restore task removes no staged file that another
\* restore task, still collecting or about to validate, has written.
C31_OwnStagedFiles ==
    [][\A i, j \in DOMAIN rest :
          (/\ i # j
           /\ rest[i].pc # "exited" /\ rest'[i].pc = "exited"
           /\ Collecting(j))
          => \A k \in StagedBy(j) : k \in DOMAIN temp => k \in DOMAIN temp']_vars

\* C32: when a restore task marks a peer done it has staged every block the
\* peer holds of the file, the blocks of the answer to its own ask_block.
C32_DoneAfterBlocks ==
    [][\A j \in DOMAIN rest : \A p \in DOMAIN rest[j].clients :
          (~rest[j].clients[p] /\ j \in DOMAIN rest' /\ rest'[j].clients[p])
          => \A k \in ClientGlob(store[p], parse(ask_block(rest[j].virtual_file))) :
                <<p, k[1], k[2], k[3]>> \in StagedBy(j)]_vars

\* the bytes of the stored file of a name, as its data blocks hold them
StoredFile(name) ==
    Concat([n \in 1..2 |-> decrypt(CopyKey, store[1][<<name, n, DATA_BLOCK>>])])
\* C33: a restore that exits with success=true after it found a usable
\* metadata block for every parity group has written exactly the bytes of
\* the distributed file.
C33_SuccessIsFaithful ==
    \A id \in DOMAIN rest :
        (/\ rest[id].pc = "exited"
         /\ \E i \in DOMAIN logic_queue : logic_queue[i] = thread_exit(id, TRUE)
         /\ 1..rest[id].validation_number \subseteq DOMAIN rest[id].mapping)
            => /\ rest[id].real_file \in DOMAIN dest
               /\ dest[rest[id].real_file] = StoredFile(rest[id].virtual_file)

\* the thread_exit messages of thread id on the coordinator's inbox
ThreadExits(id) ==
    {i \in DOMAIN logic_queue :
        logic_queue[i].type = "thread_exit" /\ logic_queue[i].thread_id = id}
\* C34: every distribute task that was started eventually has put exactly
\* one thread_exit and is no longer in the task table, whatever the number of
\* peers it captured, zero included.
C34_ExitsOnce ==
    \A id \in ThreadIds :
        (id \in DOMAIN dist)
            ~> (Cardinality(ThreadExits(id)) = 1 /\ id \notin DOMAIN running_threads)

\* C35: every thread_exit the coordinator takes off its inbox carries the
\* recorded reconstruct id or the id of a task that is in the task table.
C35_ExitOfRegistered ==
    [][(/\ logic_head' = logic_head + 1
        /\ logic_queue[logic_head + 1].type = "thread_exit")
       => \/ logic_queue[logic_head + 1].thread_id = recon.thread_id
          \/ logic_queue[logic_head + 1].thread_id \in DOMAIN running_threads]_vars

\* the send_block requests of a file name in a queue, in order
SendBlocksOf(queue, name) ==
    SelectSeq(queue, LAMBDA m : /\ m.type = "send"
                                /\ parse(m.message).type = "send_block"
                                /\ parse(m.message).name = name)
\* C36: when the coordinator inserts the record of a file, the distribute
\* task of the file has ended and every send_block request it put on the
\* coordinator's inbox is before the thread_exit being handled and is on the
\* sender queue, in the order it was put.
C36_SentBeforeInserted ==
    [][Len(db') > Len(db)
       => LET name == db'[Len(db')].name
              id == logic_queue[logic_head + 1].thread_id
          IN /\ dist[id].pc = "exited"
             /\ SendBlocksOf(logic_queue, name)
                   = SendBlocksOf(SubSeq(logic_queue, 1, logic_head), name)
             /\ SendBlocksOf(network_queue, name) = SendBlocksOf(logic_queue, name)]_vars
\* the record of a file was inserted after a data block to each of two
\* peers and a metadata block had been forwarded
C36_Witness ==
    /\ db # <<>>
    /\ Len(SendBlocksOf(network_queue, db[1].name)) >= 3
    /\ \E i, j \in DOMAIN network_queue :
          /\ network_queue[i].type = "send" /\ network_queue[j].type = "send"
          /\ network_queue[i].client # network_queue[j].client
          /\ parse(network_queue[i].message).type = "send_block"
          /\ parse(network_queue[j].message).type = "send_block"
          /\ parse(network_queue[j].message).block_type = METADATA_BLOCK

\* C37: when the coordinator handles the thread_exit with success=false of
\* a distribute task whose file name has a record, the record and every
\* block the peers store of that name are left as they are.
C37_EarlierFileKept ==
    [][(/\ logic_head' = logic_head + 1
        /\ logic_queue[logic_head + 1].type = "thread_exit"
        /\ ~logic_queue[logic_head + 1].success
        /\ logic_queue[logic_head + 1].thread_id \in DOMAIN running_threads
        /\ running_threads[logic_queue[logic_head + 1].thread_id].thread_type
              = "distribute"
        /\ QueryRows(db, running_threads[logic_queue[logic_head + 1].thread_id].name)
              # <<>>)
       => LET name == running_threads[logic_queue[logic_head + 1].thread_id].name
          IN /\ QueryRows(db', name) = QueryRows(db, name)
             /\ \A p \in Peers : \A k \in DOMAIN store[p] :
                   k[1] = name => (k \in DOMAIN store'[p] /\ store'[p][k] = store[p][k])]_vars

\* the position in the inbox of the request that started distribute thread
\* id (the threads of SpecKill are started in the order of the requests)
DistStartedAt(id) == SortedSeq(Requests("distribute"))[id]
\* the coordinator deleted the name of task a, which had failed, while task
\* b of the same name was running
DeletedWhileRunning(a, b) ==
    /\ a \in DOMAIN dist /\ b \in DOMAIN dist /\ a # b
    /\ dist[a].file_path \in DOMAIN fs
    /\ Basename(dist[a].file_path) = Basename(dist[b].file_path)
    /\ \E ia \in ThreadExits(a), ib \in ThreadExits(b) :
          /\ ~logic_queue[ia].success
          /\ DistStartedAt(b) < ia
          /\ ia < ib
\* C38: after a delete of a name was processed while a distribute task of
\* the name was running and both have finished, either the name has no
\* record or every data block of the record is stored on a peer.
C38_RecordHasBlocks ==
    (/\ Drained
     /\ \E a, b \in DOMAIN dist : DeletedWhileRunning(a, b))
        => \A i \in DOMAIN db :
              \A n \in 1..db[i].block_number :
                 \E p \in Peers : <<db[i].name, n, DATA_BLOCK>> \in DOMAIN store[p]

\* every event queued for the coordinator and for the sender is handled
QueuesEmpty ==
    /\ logic_head = Len(logic_queue)
    /\ network_head = Len(network_queue)
\* C39: the coordinator's list of peers holds each address at most once,
\* and once every queued event is handled it holds the addresses of the
\* sender's socket table.
C39_PeersAreSockets ==
    /\ \A i, j \in DOMAIN clients : clients[i] = clients[j] => i = j
    /\ QueuesEmpty => Range(clients) = sockets

\* C40: a daemon that processes the delete_block of a name removes only
\* block files of exactly that name: the blocks of every other file stay,
\* also those of a file whose name is the name followed by an underscore
\* and more.
C40_OnlyNamedFileRemoved ==
    [][\A p \in Peers :
          (/\ peer_head'[p] = peer_head[p] + 1
           /\ PeerNext(p).type = "delete_block")
          => \A k \in DOMAIN store[p] :
                k[1] # PeerNext(p).name => k \in DOMAIN store'[p]]_vars

====
